---- MODULE Spec2Model ----
(***************************************************************************)
(* Team lifecycle and failure recovery of sidstack's Tauri backend:        *)
(*   src-tauri/src/team_storage.rs      the durable store (JSON documents) *)
(*   src-tauri/src/team_manager.rs      TeamManager, behind one tokio Mutex *)
(*   src-tauri/src/recovery_watchdog.rs the polling RecoveryWatchdog       *)
(*   src-tauri/src/commands/team.rs     the Tauri commands (lock + call)   *)
(*                                                                         *)
(* Conventions.                                                            *)
(*  - Option<T> is a sequence: None == <<>>, Some(x) == <<x>>.             *)
(*  - HashMap<K,V> is a function whose DOMAIN is the key set.              *)
(*  - Uuid::new_v4() is a fresh name drawn from a counter.                 *)
(*  - A DateTime<Utc> is stored as its age in seconds (now - t), a        *)
(*    deadline as the milliseconds left until it (t - now, at least 0).    *)
(*    The code only ever compares timestamps with Utc::now(), so ages and  *)
(*    remaining times carry the same information, and time can pass for    *)
(*    ever in a finite state space.  Ages saturate at AgeCap.              *)
(*  - Every TeamManager operation is an operator from the manager (with    *)
(*    its store) to [tm, res, ret]: the manager afterwards, "Ok" or the    *)
(*    error, and the returned value.                                       *)
(***************************************************************************)
EXTENDS Integers, Sequences, FiniteSets, TLC

VARIABLES
    mgr,        \* TeamManager: its TeamStorage documents, active_teams, uuid source
    wd,         \* RecoveryWatchdog and the position of run_watchdog_loop
    rx,         \* the mpsc channel of WatchdogCommands
    emitted,    \* "recovery-event" notifications emitted to the frontend
    lastOp,     \* the operation that made the last step, its arguments and result
    elapsed,    \* number of time steps taken (bounds the clock of the safety specs)
    replaced,   \* history: <<failed id, replacement id>> of every replacement made
    preempted,  \* history: <<team, member>> whose pending recovery a status update preempted
    lock,       \* holder of the SharedTeamManager mutex (explicit-lock specification)
    callers,    \* the concurrent callers of team_update_member_status
    acquired    \* history: the callers' updates in lock-acquisition order

vars == <<mgr, wd, rx, emitted, lastOp, elapsed, replaced, preempted, lock, callers, acquired>>

----------------------------------------------------------------------------
(* Bounds of the model *)

MaxMembers == 3
MaxElapsed == 1
MaxQueue == 1
MaxAppends == 101
NumCallers == 2
MaxCalls == 3
MaxFailures == 1
\* Member ids drawn where replacements are made in teams of three
MaxDrawn == 5

(* Program constants *)

HistoryCap == 100
DefaultCheckIntervalSecs == 30
DefaultHeartbeatTimeoutSecs == 120
DefaultRecoveryDelayMs == 5000
ConfigRecoveryDelayMs == 5000
DefaultHistoryLimit == 20

AgeCap == DefaultHeartbeatTimeoutSecs + 1

----------------------------------------------------------------------------
(* Generic helpers *)

None == <<>>
Some(x) == <<x>>
IsSome(o) == o # <<>>

Min(a, b) == IF a <= b THEN a ELSE b
Max(a, b) == IF a >= b THEN a ELSE b

EmptyMap == [x \in {} |-> 0]
Put(f, k, v) == [x \in (DOMAIN f) \cup {k} |-> IF x = k THEN v ELSE f[x]]
Remove(f, k) == [x \in (DOMAIN f) \ {k} |-> f[x]]

Range(s) == {s[i] : i \in DOMAIN s}

\* Iterator::position / find by id: the first index whose element has the id, or 0.
FirstIndex(s, id) ==
    IF \E i \in 1..Len(s) : s[i].id = id
    THEN CHOOSE i \in 1..Len(s) : s[i].id = id /\ \A j \in 1..(i-1) : s[j].id # id
    ELSE 0

\* Vec::retain(|w| w.id != id)
Retain(s, id) ==
    LET Keep(w) == w.id # id
    IN SelectSeq(s, Keep)

\* Vec::truncate and Iterator::take
Truncate(s, n) == SubSeq(s, 1, Min(Len(s), n))

\* Uuid::new_v4(): the n-th fresh name
MemberUuid(n) == <<"m1", "m2", "m3", "m4", "m5", "m6", "m7", "m8", "m9">>[n]
TeamUuid(n) == <<"T1", "T2", "T3", "T4", "T5", "T6">>[n]

----------------------------------------------------------------------------
(* team_storage.rs: the documents *)

TeamMemberConfig_new(id, role, agent_type) ==
    [id |-> id, role |-> role, agent_type |-> agent_type,
     terminal_id |-> None, claude_session_id |-> None,
     current_task_id |-> None, current_spec_id |-> None,
     failure_count |-> 0, last_failure |-> None, recovered_from |-> None]

TeamState_new(team_id) ==
    [team_id |-> team_id, status |-> "Active", last_active |-> 0,
     members |-> EmptyMap, active_specs |-> <<>>, session_info |-> None]

TeamHistory_new(team_id) == [team_id |-> team_id, events |-> <<>>]

MemberState(status, terminal_id, claude_session_id, current_task) ==
    [status |-> status, terminal_id |-> terminal_id,
     claude_session_id |-> claude_session_id,
     current_task |-> current_task, last_heartbeat |-> Some(0)]

TeamManager_new ==
    [configs |-> EmptyMap,      \* <<project_path, team_id>> -> team.json
     states |-> EmptyMap,       \* <<project_path, team_id>> -> state.json
     histories |-> EmptyMap,    \* <<project_path, team_id>> -> history.json
     indexes |-> EmptyMap,      \* project_path -> teams.json (its teams)
     active_teams |-> EmptyMap, \* team_id -> TeamData
     uuid_member |-> 1, uuid_team |-> 1, uuid_event |-> 1]

----------------------------------------------------------------------------
(* team_storage.rs: TeamStorage *)

load_index(tm, p) == IF p \in DOMAIN tm.indexes THEN tm.indexes[p] ELSE <<>>

save_index(tm, p, teams) == [tm EXCEPT !.indexes = Put(@, p, teams)]

update_index_entry(tm, p, entry) ==
    LET teams == load_index(tm, p)
        i == FirstIndex(teams, entry.id)
    IN IF i # 0 THEN save_index(tm, p, [teams EXCEPT ![i] = entry])
       ELSE save_index(tm, p, Append(teams, entry))

save_config(tm, config) ==
    LET written == [tm EXCEPT !.configs = Put(@, <<config.project_path, config.id>>, config)]
        entry == [id |-> config.id, name |-> config.name, status |-> "Active",
                  last_active |-> 0, member_count |-> 1 + Len(config.workers)]
    IN update_index_entry(written, config.project_path, entry)

\* Option<TeamConfig>: None stands for Err(TeamNotFound)
load_config(tm, p, t) ==
    IF <<p, t>> \in DOMAIN tm.configs THEN Some(tm.configs[<<p, t>>]) ELSE None

save_state(tm, p, state) ==
    LET written == [tm EXCEPT !.states = Put(@, <<p, state.team_id>>, state)]
        teams == load_index(written, p)
        i == FirstIndex(teams, state.team_id)
        updated == IF i # 0
                   THEN [teams EXCEPT ![i].status = state.status,
                                      ![i].last_active = state.last_active]
                   ELSE teams
    IN save_index(written, p, updated)

load_state(tm, p, t) ==
    IF <<p, t>> \in DOMAIN tm.states THEN tm.states[<<p, t>>] ELSE TeamState_new(t)

save_history(tm, p, history) ==
    [tm EXCEPT !.histories = Put(@, <<p, history.team_id>>, history)]

load_history(tm, p, t) ==
    IF <<p, t>> \in DOMAIN tm.histories THEN tm.histories[<<p, t>>] ELSE TeamHistory_new(t)

\* add_recovery_event that puts the event at the tail and never truncates
add_recovery_event_at_tail(tm, p, t, event) ==
    LET history == load_history(tm, p, t)
    IN save_history(tm, p, [history EXCEPT !.events = Append(@, event)])

add_recovery_event(tm, p, t, event) ==
    LET history == load_history(tm, p, t)
        inserted == <<event>> \o history.events
    IN save_history(tm, p, [history EXCEPT !.events = Truncate(inserted, HistoryCap)])

\* [ok, tm]: Err(TeamAlreadyExists) leaves the store as it is
\* TeamStorage::create_team without its "Check if team with same name exists"
storage_create_team_unchecked(tm, config) ==
    LET t1 == save_config(tm, config)
        state == [TeamState_new(config.id) EXCEPT
                     !.members = Put(EmptyMap, config.orchestrator.id,
                                     MemberState("Active", config.orchestrator.terminal_id,
                                                 config.orchestrator.claude_session_id, None))]
        t2 == save_state(t1, config.project_path, state)
    IN [ok |-> TRUE,
        tm |-> save_history(t2, config.project_path, TeamHistory_new(config.id))]

storage_create_team(tm, config) ==
    LET index == load_index(tm, config.project_path)
    IN IF \E i \in 1..Len(index) : index[i].name = config.name
       THEN [ok |-> FALSE, tm |-> tm]
       ELSE LET t1 == save_config(tm, config)
                withOrch == Put(EmptyMap, config.orchestrator.id,
                                MemberState("Active", config.orchestrator.terminal_id,
                                            config.orchestrator.claude_session_id, None))
                AddWorkers[i \in 0..Len(config.workers)] ==
                    IF i = 0 THEN withOrch
                    ELSE Put(AddWorkers[i-1], config.workers[i].id,
                             MemberState("Idle", config.workers[i].terminal_id,
                                         config.workers[i].claude_session_id, None))
                state == [TeamState_new(config.id) EXCEPT
                             !.members = AddWorkers[Len(config.workers)]]
                t2 == save_state(t1, config.project_path, state)
                t3 == save_history(t2, config.project_path, TeamHistory_new(config.id))
            IN [ok |-> TRUE, tm |-> t3]

\* Option<(TeamConfig, TeamState)>: None stands for Err(TeamNotFound)
storage_get_team(tm, p, t) ==
    IF load_config(tm, p, t) = None THEN None
    ELSE Some([config |-> load_config(tm, p, t)[1], state |-> load_state(tm, p, t)])

storage_archive_team(tm, p, t) ==
    LET state == load_state(tm, p, t)
    IN save_state(tm, p, [state EXCEPT !.status = "Archived", !.last_active = 0])

----------------------------------------------------------------------------
(* team_manager.rs: TeamManager.  Result<T, TeamManagerError> is [tm, res, ret]. *)

Ok(tm, ret) == [tm |-> tm, res |-> "Ok", ret |-> ret]
Err(tm, e) == [tm |-> tm, res |-> e, ret |-> None]

TeamData(config, state) == [config |-> config, state |-> state]

\* self.active_teams.insert(team_id, TeamData { config, state })
cache_insert(tm, t, config, state) ==
    [tm EXCEPT !.active_teams = Put(@, t, TeamData(config, state))]

\* self.active_teams.remove(team_id)
cache_remove(tm, t) == [tm EXCEPT !.active_teams = Remove(@, t)]

\* input: [name, project_path, auto_recovery, max_recovery_attempts, members]
create_team(tm, input) ==
    LET n == Len(input.members)
        orchestrator == TeamMemberConfig_new(MemberUuid(tm.uuid_member),
                                             "orchestrator", "orchestrator")
        workers == [i \in 1..n |->
                       TeamMemberConfig_new(MemberUuid(tm.uuid_member + i),
                                            input.members[i].role,
                                            input.members[i].agent_type)]
        config == [id |-> TeamUuid(tm.uuid_team), name |-> input.name,
                   project_path |-> input.project_path,
                   orchestrator |-> orchestrator, workers |-> workers,
                   auto_recovery |-> input.auto_recovery,
                   max_recovery_attempts |-> input.max_recovery_attempts,
                   recovery_delay_ms |-> ConfigRecoveryDelayMs]
        drawn == [tm EXCEPT !.uuid_member = @ + n + 1, !.uuid_team = @ + 1]
        created == storage_create_team(drawn, config)
    IN IF ~created.ok THEN Err(tm, "TeamAlreadyExists")
       ELSE LET state == load_state(created.tm, input.project_path, config.id)
            IN Ok(cache_insert(created.tm, config.id, config, state),
                  Some(TeamData(config, state)))

get_team(tm, p, t) ==
    IF t \in DOMAIN tm.active_teams THEN Ok(tm, Some(tm.active_teams[t]))
    ELSE LET got == storage_get_team(tm, p, t)
         IN IF got = None THEN Err(tm, "TeamNotFound")
            ELSE IF got[1].state.status = "Active"
                 THEN Ok(cache_insert(tm, t, got[1].config, got[1].state), got)
                 ELSE Ok(tm, got)

\* name, auto_recovery, max_recovery_attempts: Option
update_team(tm, p, t, name, auto_recovery, max_recovery_attempts) ==
    LET got == storage_get_team(tm, p, t)
    IN IF got = None THEN Err(tm, "TeamNotFound")
       ELSE LET c0 == got[1].config
                c1 == IF IsSome(name) THEN [c0 EXCEPT !.name = name[1]] ELSE c0
                c2 == IF IsSome(auto_recovery)
                      THEN [c1 EXCEPT !.auto_recovery = auto_recovery[1]] ELSE c1
                c3 == IF IsSome(max_recovery_attempts)
                      THEN [c2 EXCEPT !.max_recovery_attempts = max_recovery_attempts[1]]
                      ELSE c2
                saved == save_config(tm, c3)
            IN Ok(cache_insert(saved, t, c3, got[1].state),
                  Some(TeamData(c3, got[1].state)))

archive_team(tm, p, t) == Ok(cache_remove(storage_archive_team(tm, p, t), t), None)

add_member(tm, p, t, role, agent_type) ==
    LET got == storage_get_team(tm, p, t)
    IN IF got = None THEN Err(tm, "TeamNotFound")
       ELSE LET member == TeamMemberConfig_new(MemberUuid(tm.uuid_member), role, agent_type)
                config == [got[1].config EXCEPT !.workers = Append(@, member)]
                t1 == save_config([tm EXCEPT !.uuid_member = @ + 1], config)
                state == [got[1].state EXCEPT
                             !.members = Put(@, member.id, MemberState("Idle", None, None, None))]
                t2 == save_state(t1, p, state)
            IN Ok(cache_insert(t2, t, config, state), Some(member))

\* remove_member without its orchestrator guard
remove_member_unguarded(tm, p, t, member_id) ==
    LET got == storage_get_team(tm, p, t)
    IN IF got = None THEN Err(tm, "TeamNotFound")
       ELSE LET config == [got[1].config EXCEPT !.workers = Retain(@, member_id)]
                t1 == save_config(tm, config)
                state == [got[1].state EXCEPT !.members = Remove(@, member_id)]
                t2 == save_state(t1, p, state)
            IN Ok(cache_insert(t2, t, config, state), None)

remove_member(tm, p, t, member_id) ==
    LET got == storage_get_team(tm, p, t)
    IN IF got = None THEN Err(tm, "TeamNotFound")
       ELSE IF got[1].config.orchestrator.id = member_id THEN Err(tm, "InvalidOperation")
       ELSE LET config == [got[1].config EXCEPT !.workers = Retain(@, member_id)]
                t1 == save_config(tm, config)
                state == [got[1].state EXCEPT !.members = Remove(@, member_id)]
                t2 == save_state(t1, p, state)
            IN Ok(cache_insert(t2, t, config, state), None)

\* terminal_id, claude_session_id: Option
update_member_session(tm, p, t, member_id, terminal_id, claude_session_id) ==
    LET got == storage_get_team(tm, p, t)
    IN IF got = None THEN Err(tm, "TeamNotFound")
       ELSE IF member_id \notin DOMAIN got[1].state.members THEN Err(tm, "MemberNotFound")
       ELSE LET m0 == got[1].state.members[member_id]
                m1 == IF IsSome(terminal_id) THEN [m0 EXCEPT !.terminal_id = terminal_id] ELSE m0
                m2 == IF IsSome(claude_session_id)
                      THEN [m1 EXCEPT !.claude_session_id = claude_session_id] ELSE m1
                m3 == [m2 EXCEPT !.last_heartbeat = Some(0)]
                state == [got[1].state EXCEPT !.members[member_id] = m3, !.last_active = 0]
            IN Ok(cache_insert(save_state(tm, p, state), t, got[1].config, state), None)

\* The read-modify-write of update_member_status on a loaded (config, state)
status_updated(state, member_id, status) ==
    [state EXCEPT !.members[member_id].status = status,
                  !.members[member_id].last_heartbeat = Some(0),
                  !.last_active = 0]

\* An update_member_status that saves the State and leaves the cache as it was
status_written_uncached(tm, got, p, t, member_id, status) ==
    IF got = None THEN Err(tm, "TeamNotFound")
    ELSE IF member_id \notin DOMAIN got[1].state.members THEN Err(tm, "MemberNotFound")
    ELSE Ok(save_state(tm, p, status_updated(got[1].state, member_id, status)), None)

\* update_member_status from the team it has read on: check, modify, save, cache
status_written(tm, got, p, t, member_id, status) ==
    IF got = None THEN Err(tm, "TeamNotFound")
    ELSE IF member_id \notin DOMAIN got[1].state.members THEN Err(tm, "MemberNotFound")
    ELSE LET state == status_updated(got[1].state, member_id, status)
         IN Ok(cache_insert(save_state(tm, p, state), t, got[1].config, state), None)

update_member_status(tm, p, t, member_id, status) ==
    status_written(tm, storage_get_team(tm, p, t), p, t, member_id, status)

\* task_info: Option<MemberTaskInfo>, MemberTaskInfo = [task_id, spec_id, phase, progress]
update_member_task(tm, p, t, member_id, task_info) ==
    LET got == storage_get_team(tm, p, t)
    IN IF got = None THEN Err(tm, "TeamNotFound")
       ELSE IF member_id \notin DOMAIN got[1].state.members THEN Err(tm, "MemberNotFound")
       ELSE LET s0 == got[1].state
                specs == IF IsSome(task_info) /\ IsSome(task_info[1].spec_id)
                            /\ task_info[1].spec_id[1] \notin Range(s0.active_specs)
                         THEN Append(s0.active_specs, task_info[1].spec_id[1])
                         ELSE s0.active_specs
                state == [s0 EXCEPT !.members[member_id].current_task = task_info,
                                    !.members[member_id].last_heartbeat = Some(0),
                                    !.active_specs = specs,
                                    !.last_active = 0]
            IN Ok(cache_insert(save_state(tm, p, state), t, got[1].config, state), None)

\* record_heartbeat that stamps and saves the State before it looks for the member
record_heartbeat_touching(tm, p, t, member_id) ==
    LET got == storage_get_team(tm, p, t)
    IN IF got = None THEN Err(tm, "TeamNotFound")
       ELSE IF member_id \notin DOMAIN got[1].state.members
            THEN Err(save_state(tm, p, [got[1].state EXCEPT !.last_active = 0]),
                     "MemberNotFound")
       ELSE LET state == [got[1].state EXCEPT !.members[member_id].last_heartbeat = Some(0)]
            IN Ok(cache_insert(save_state(tm, p, state), t, got[1].config, state), None)

record_heartbeat(tm, p, t, member_id) ==
    LET got == storage_get_team(tm, p, t)
    IN IF got = None THEN Err(tm, "TeamNotFound")
       ELSE IF member_id \notin DOMAIN got[1].state.members THEN Err(tm, "MemberNotFound")
       ELSE LET state == [got[1].state EXCEPT !.members[member_id].last_heartbeat = Some(0)]
            IN Ok(cache_insert(save_state(tm, p, state), t, got[1].config, state), None)

\* pause_team that saves a snapshot without the terminals it was given
pause_team_unlisted(tm, p, t, terminal_sessions) ==
    LET got == storage_get_team(tm, p, t)
    IN IF got = None THEN Err(tm, "TeamNotFound")
       ELSE LET s0 == got[1].state
                state == [s0 EXCEPT
                    !.members = [m \in DOMAIN s0.members |->
                                    [s0.members[m] EXCEPT !.status = "Paused"]],
                    !.session_info = Some([saved_at |-> 0, terminals |-> <<>>]),
                    !.status = "Paused",
                    !.last_active = 0]
            IN Ok(cache_remove(save_state(tm, p, state), t), None)

\* terminal_sessions: Vec<TerminalSessionInfo>
pause_team(tm, p, t, terminal_sessions) ==
    LET got == storage_get_team(tm, p, t)
    IN IF got = None THEN Err(tm, "TeamNotFound")
       ELSE LET s0 == got[1].state
                state == [s0 EXCEPT
                    !.members = [m \in DOMAIN s0.members |->
                                    [s0.members[m] EXCEPT !.status = "Paused"]],
                    !.session_info = Some([saved_at |-> 0, terminals |-> terminal_sessions]),
                    !.status = "Paused",
                    !.last_active = 0]
            IN Ok(cache_remove(save_state(tm, p, state), t), None)

\* resume_team that leaves the members their terminals and sessions
resume_team_keeping_sessions(tm, p, t) ==
    LET got == storage_get_team(tm, p, t)
    IN IF got = None THEN Err(tm, "TeamNotFound")
       ELSE IF got[1].state.status # "Paused" THEN Err(tm, "InvalidOperation")
       ELSE LET s0 == got[1].state
                state == [s0 EXCEPT
                    !.session_info = None,
                    !.members = [m \in DOMAIN s0.members |->
                                    [s0.members[m] EXCEPT !.status = "Idle"]],
                    !.status = "Active",
                    !.last_active = 0]
            IN Ok(cache_insert(save_state(tm, p, state), t, got[1].config, state),
                  Some(<<TeamData(got[1].config, state), s0.session_info>>))

resume_team(tm, p, t) ==
    LET got == storage_get_team(tm, p, t)
    IN IF got = None THEN Err(tm, "TeamNotFound")
       ELSE IF got[1].state.status # "Paused" THEN Err(tm, "InvalidOperation")
       ELSE LET s0 == got[1].state
                state == [s0 EXCEPT
                    !.session_info = None,
                    !.members = [m \in DOMAIN s0.members |->
                                    [s0.members[m] EXCEPT !.status = "Idle",
                                                          !.terminal_id = None,
                                                          !.claude_session_id = None]],
                    !.status = "Active",
                    !.last_active = 0]
            IN Ok(cache_insert(save_state(tm, p, state), t, got[1].config, state),
                  Some(<<TeamData(got[1].config, state), s0.session_info>>))

----------------------------------------------------------------------------
(* team_manager.rs: recovery operations *)

\* Option<TeamMemberConfig>: the orchestrator if it has the id, else the first such worker
find_member(config, member_id) ==
    LET i == FirstIndex(config.workers, member_id)
    IN IF config.orchestrator.id = member_id THEN Some(config.orchestrator)
       ELSE IF i # 0 THEN Some(config.workers[i])
       ELSE None

\* member.failure_count += 1; member.last_failure = Some(Utc::now())
\* A failure stamped with its time but not counted
failure_stamped(member) == [member EXCEPT !.last_failure = Some(0)]

failure_counted(member) ==
    [member EXCEPT !.failure_count = @ + 1, !.last_failure = Some(0)]

report_member_failure(tm, p, t, member_id) ==
    LET got == storage_get_team(tm, p, t)
    IN IF got = None THEN Err(tm, "TeamNotFound")
       ELSE IF find_member(got[1].config, member_id) = None THEN Err(tm, "MemberNotFound")
       ELSE LET c0 == got[1].config
                i == FirstIndex(c0.workers, member_id)
                config == IF c0.orchestrator.id = member_id
                          THEN [c0 EXCEPT !.orchestrator = failure_counted(@)]
                          ELSE [c0 EXCEPT !.workers[i] = failure_counted(@)]
                t1 == save_config(tm, config)
                s0 == got[1].state
                s1 == IF member_id \in DOMAIN s0.members
                      THEN [s0 EXCEPT !.members[member_id].status = "Failed"]
                      ELSE s0
                state == [s1 EXCEPT !.last_active = 0]
                t2 == save_state(t1, p, state)
            IN Ok(cache_insert(t2, t, config, state), None)

\* A config update that adds the replacement and keeps the failed member
replace_in_config_keeping(config, failed_member_id, replacement) ==
    [config EXCEPT !.workers = Append(@, replacement)]

\* "Update config - replace failed member": the replacement takes the failed member's slot
\* A config update that takes the failed worker out and puts the replacement last
replace_in_config_appending(config, failed_member_id, replacement) ==
    IF config.orchestrator.id = failed_member_id
    THEN [config EXCEPT !.orchestrator = replacement]
    ELSE IF FirstIndex(config.workers, failed_member_id) # 0
         THEN [config EXCEPT !.workers = Append(Retain(@, failed_member_id), replacement)]
    ELSE config

\* A config update that seats every replacement in the orchestrator slot
replace_in_config_usurping(config, failed_member_id, replacement) ==
    IF find_member(config, failed_member_id) # None
    THEN [config EXCEPT !.orchestrator = replacement]
    ELSE config

replace_in_config(config, failed_member_id, replacement) ==
    LET idx == FirstIndex(config.workers, failed_member_id)
    IN IF config.orchestrator.id = failed_member_id
       THEN [config EXCEPT !.orchestrator = replacement]
       ELSE IF idx # 0 THEN [config EXCEPT !.workers[idx] = replacement]
       ELSE config

\* A state update that leaves the failed member's entry in place
replace_in_state_keeping(state, failed_member_id, replacement_id) ==
    [state EXCEPT
        !.members = Put(state.members, replacement_id,
                        MemberState("Recovering", None, None,
                                    IF failed_member_id \in DOMAIN state.members
                                    THEN state.members[failed_member_id].current_task
                                    ELSE None)),
        !.last_active = 0]

\* A state update that starts the replacement without a task
replace_in_state_taskless(state, failed_member_id, replacement_id) ==
    [state EXCEPT
        !.members = Put(Remove(state.members, failed_member_id), replacement_id,
                        MemberState("Recovering", None, None, None)),
        !.last_active = 0]

\* "Update state": the failed member's entry is removed and its current_task handed on
replace_in_state(state, failed_member_id, replacement_id) ==
    LET failed_state == IF failed_member_id \in DOMAIN state.members
                        THEN Some(state.members[failed_member_id]) ELSE None
        current_task == IF IsSome(failed_state) THEN failed_state[1].current_task ELSE None
        removed == Remove(state.members, failed_member_id)
    IN [state EXCEPT
           !.members = Put(removed, replacement_id,
                           MemberState("Recovering", None, None, current_task)),
           !.last_active = 0]

\* A replacement that inherits the failure record of the member it replaces
create_replacement_member_carrying(tm, p, t, failed_member_id) ==
    LET got == storage_get_team(tm, p, t)
    IN IF got = None THEN Err(tm, "TeamNotFound")
       ELSE IF find_member(got[1].config, failed_member_id) = None
            THEN Err(tm, "MemberNotFound")
       ELSE LET failed_member == find_member(got[1].config, failed_member_id)[1]
                replacement == [failed_member EXCEPT
                                   !.id = MemberUuid(tm.uuid_member),
                                   !.terminal_id = None,
                                   !.claude_session_id = None,
                                   !.recovered_from = Some(failed_member_id)]
                config == replace_in_config(got[1].config, failed_member_id, replacement)
                t1 == save_config([tm EXCEPT !.uuid_member = @ + 1], config)
                state == replace_in_state(got[1].state, failed_member_id, replacement.id)
                t2 == save_state(t1, p, state)
            IN Ok(cache_insert(t2, t, config, state), Some(replacement))

create_replacement_member(tm, p, t, failed_member_id) ==
    LET got == storage_get_team(tm, p, t)
    IN IF got = None THEN Err(tm, "TeamNotFound")
       ELSE IF find_member(got[1].config, failed_member_id) = None
            THEN Err(tm, "MemberNotFound")
       ELSE LET failed_member == find_member(got[1].config, failed_member_id)[1]
                fresh == TeamMemberConfig_new(MemberUuid(tm.uuid_member),
                                              failed_member.role, failed_member.agent_type)
                replacement == [fresh EXCEPT
                                   !.recovered_from = Some(failed_member_id),
                                   !.current_task_id = failed_member.current_task_id,
                                   !.current_spec_id = failed_member.current_spec_id]
                config == replace_in_config(got[1].config, failed_member_id, replacement)
                t1 == save_config([tm EXCEPT !.uuid_member = @ + 1], config)
                state == replace_in_state(got[1].state, failed_member_id, replacement.id)
                t2 == save_state(t1, p, state)
            IN Ok(cache_insert(t2, t, config, state), Some(replacement))

\* The task the event names: that of the state entry found under failed_member_id
event_task(state, failed_member_id) ==
    LET failed_state == IF failed_member_id \in DOMAIN state.members
                        THEN Some(state.members[failed_member_id]) ELSE None
        task == IF IsSome(failed_state) THEN failed_state[1].current_task ELSE None
    IN [spec_id |-> IF IsSome(task) THEN task[1].spec_id ELSE None,
        task_id |-> IF IsSome(task) THEN Some(task[1].task_id) ELSE None]

\* id: the events are numbered as they are created (Uuid::new_v4());
\* timestamp: Utc::now(), kept as that same creation number, which orders the events in time
record_recovery_event(tm, p, t, failed_member_id, failed_member_role, replacement_member_id, reason, context, success) ==
    LET state == load_state(tm, p, t)
        named == event_task(state, failed_member_id)
        event == [id |-> tm.uuid_event, timestamp |-> tm.uuid_event,
                  failed_member_id |-> failed_member_id,
                  failed_member_role |-> failed_member_role,
                  replacement_member_id |-> replacement_member_id,
                  reason |-> reason,
                  spec_id |-> named.spec_id, task_id |-> named.task_id,
                  recovery_context |-> context, success |-> success]
    IN Ok(add_recovery_event([tm EXCEPT !.uuid_event = @ + 1], p, t, event), None)

get_recovery_history(tm, p, t, limit) ==
    Ok(tm, Some(Truncate(load_history(tm, p, t).events, limit)))

MemberWithState(member, state) ==
    LET known == member.id \in DOMAIN state.members
        ms == state.members[member.id]
    IN [id |-> member.id, role |-> member.role, agent_type |-> member.agent_type,
        status |-> IF known THEN ms.status ELSE "Idle",
        terminal_id |-> IF known THEN ms.terminal_id ELSE None,
        claude_session_id |-> IF known THEN ms.claude_session_id ELSE None,
        current_task |-> IF known THEN ms.current_task ELSE None,
        failure_count |-> member.failure_count]

get_members_with_state(tm, p, t) ==
    LET got == storage_get_team(tm, p, t)
    IN IF got = None THEN Err(tm, "TeamNotFound")
       ELSE LET config == got[1].config
            IN Ok(tm, Some(<<MemberWithState(config.orchestrator, got[1].state)>> \o
                           [i \in 1..Len(config.workers) |->
                               MemberWithState(config.workers[i], got[1].state)]))

\* resume_instructions is the format! text, kept as its template and arguments
build_recovery_context(tm, p, t, member_id) ==
    LET state == load_state(tm, p, t)
    IN IF member_id \notin DOMAIN state.members THEN Err(tm, "MemberNotFound")
       ELSE LET task == state.members[member_id].current_task
                spec_id == IF IsSome(task) THEN task[1].spec_id ELSE None
                progress == IF IsSome(task) THEN task[1].progress ELSE 0
            IN Ok(tm, Some([spec_id |-> spec_id,
                            task_id |-> IF IsSome(task) THEN Some(task[1].task_id) ELSE None,
                            phase |-> IF IsSome(task) THEN Some(task[1].phase) ELSE None,
                            progress |-> progress,
                            completed_steps |-> <<>>, current_step |-> None,
                            artifacts |-> <<>>,
                            resume_instructions |->
                                IF IsSome(spec_id)
                                THEN <<"Continue work on spec", spec_id[1], progress>>
                                ELSE <<"Check for pending tasks">>]))

----------------------------------------------------------------------------
(* recovery_watchdog.rs: RecoveryWatchdog *)

WatchdogConfig_default ==
    [check_interval_secs |-> DefaultCheckIntervalSecs,
     heartbeat_timeout_secs |-> DefaultHeartbeatTimeoutSecs,
     recovery_delay_ms |-> DefaultRecoveryDelayMs,
     enabled |-> TRUE]

\* pending_recoveries: member_id -> milliseconds left until the scheduled time
MonitoredTeam(project_path) ==
    [project_path |-> project_path, pending_recoveries |-> EmptyMap]

\* RecoveryWatchdog::new, then start: the loop takes its interval from the config once
\*   pc: "select" in tokio::select!, "check_health" and "execute" inside a tick
\*   to_check: the monitored teams check_health has still to visit
\*   until_tick: seconds until interval.tick() completes
RecoveryWatchdog_new ==
    [config |-> WatchdogConfig_default,
     monitored_teams |-> EmptyMap,
     pc |-> "select", running |-> TRUE,
     to_check |-> {}, health_reports |-> {}, recoveries_to_execute |-> {},
     interval |-> WatchdogConfig_default.check_interval_secs,
     until_tick |-> 0]

\* "Would check against actual heartbeat timestamps. For now, return false"
is_heartbeat_stale(w, member_id) == FALSE

MemberHealth(w, team_id, member) ==
    LET is_stale == member.status = "Active" /\ is_heartbeat_stale(w, member.id)
    IN [member_id |-> member.id, team_id |-> team_id,
        is_healthy |-> member.status # "Failed" /\ ~is_stale,
        terminal_alive |-> IsSome(member.terminal_id),
        failure_detected |-> member.status = "Failed" \/ is_stale,
        failure_reason |-> IF member.status = "Failed" THEN Some("Agent reported failure")
                           ELSE IF is_stale THEN Some("Heartbeat timeout")
                           ELSE None]

\* check_health, one monitored team: the reports of its members, none if the team cannot be read
team_health(w, tm, team_id) ==
    LET got == get_members_with_state(tm, w.monitored_teams[team_id].project_path, team_id)
    IN IF got.res # "Ok" THEN {}
       ELSE {MemberHealth(w, team_id, got.ret[1][i]) : i \in 1..Len(got.ret[1])}

\* recovery_time = Utc::now() + recovery_delay_ms, inserted over any earlier time
schedule_recovery(w, team_id, member_id) ==
    IF team_id \in DOMAIN w.monitored_teams
    THEN [w EXCEPT !.monitored_teams[team_id].pending_recoveries =
                       Put(@, member_id, w.config.recovery_delay_ms)]
    ELSE w

\* The loop's "Schedule recoveries for unhealthy members"
to_schedule(w) ==
    {h \in w.health_reports : h.failure_detected /\ IsSome(h.failure_reason)}

RECURSIVE schedule_all(_, _)
schedule_all(w, reports) ==
    IF reports = {} THEN w
    ELSE LET h == CHOOSE x \in reports : TRUE
         IN schedule_all(schedule_recovery(w, h.team_id, h.member_id), reports \ {h})

\* execute_pending_recoveries, "Collect recoveries that are due": scheduled <= now
is_due(remaining_ms) == remaining_ms <= 0

due_recoveries(w) ==
    UNION {{<<t, w.monitored_teams[t].project_path, m>> :
               m \in {x \in DOMAIN w.monitored_teams[t].pending_recoveries :
                         is_due(w.monitored_teams[t].pending_recoveries[x])}} :
           t \in DOMAIN w.monitored_teams}

collect_due(w) ==
    [w EXCEPT
        !.monitored_teams =
            [t \in DOMAIN w.monitored_teams |->
                [w.monitored_teams[t] EXCEPT !.pending_recoveries =
                    LET pend == w.monitored_teams[t].pending_recoveries
                    IN [m \in {x \in DOMAIN pend : ~is_due(pend[x])} |-> pend[m]]]],
        !.recoveries_to_execute = due_recoveries(w)]

\* A cap that lets one more attempt through
cap_exceeded(member, config) == member.failure_count > config.max_recovery_attempts

\* "Check max recovery attempts"
cap_reached(member, config) == member.failure_count >= config.max_recovery_attempts

\* The member trigger_recovery looks up: a worker first, else the orchestrator
recovery_member(config, member_id) ==
    LET i == FirstIndex(config.workers, member_id)
    IN IF i # 0 THEN Some(config.workers[i])
       ELSE IF config.orchestrator.id = member_id THEN Some(config.orchestrator)
       ELSE None

RecoveryNotification(team_id, member_id, replacement, reason) ==
    [team_id |-> team_id, failed_member_id |-> member_id,
     failed_member_role |-> replacement.role,
     replacement_member_id |-> Some(replacement.id),
     reason |-> reason, success |-> TRUE]

Outcome(tm, outcome, emit) == [tm |-> tm, res |-> outcome, ret |-> emit]

\* "Get recovery context before creating replacement": the summary kept for the event
context_summary_of(context) ==
    IF context.res = "Ok"
    THEN Some([progress |-> context.ret[1].progress,
               artifacts |-> context.ret[1].artifacts,
               current_step |-> context.ret[1].current_step])
    ELSE None

\* trigger_recovery from the match on create_replacement_member: the event recorded,
\* then the notification when the replacement was made
recovery_recorded(created, team_id, project_path, member_id, reason, context_summary) ==
    IF created.res # "Ok"
    THEN Outcome(record_recovery_event(created.tm, project_path, team_id, member_id,
                                       "unknown", "none", reason, context_summary, FALSE).tm,
                 "ReplaceFailed", None)
    ELSE Outcome(record_recovery_event(created.tm, project_path, team_id, member_id,
                                       created.ret[1].role, created.ret[1].id, reason,
                                       context_summary, TRUE).tm,
                 "Recovered",
                 Some(RecoveryNotification(team_id, member_id, created.ret[1], reason)))

\* trigger_recovery from "Report failure": the context built, the replacement created
recovery_reported(reported, team_id, project_path, member_id, reason) ==
    IF reported.res # "Ok" THEN Outcome(reported.tm, "ReportFailed", None)
    ELSE recovery_recorded(
             create_replacement_member(reported.tm, project_path, team_id, member_id),
             team_id, project_path, member_id, reason,
             context_summary_of(build_recovery_context(reported.tm, project_path,
                                                       team_id, member_id)))

\* trigger_recovery without its "Check if auto-recovery is enabled" return
recovery_checked_regardless(got, team_id, project_path, member_id, reason) ==
    IF got.res # "Ok" THEN Outcome(got.tm, "TeamNotFound", None)
    ELSE IF /\ IsSome(recovery_member(got.ret[1].config, member_id))
            /\ cap_reached(recovery_member(got.ret[1].config, member_id)[1],
                           got.ret[1].config)
         THEN Outcome(got.tm, "MaxAttempts", None)
    ELSE recovery_reported(
             report_member_failure(got.tm, project_path, team_id, member_id),
             team_id, project_path, member_id, reason)

\* trigger_recovery from the match on get_team: the settings checked, the failure reported
recovery_checked(got, team_id, project_path, member_id, reason) ==
    IF got.res # "Ok" THEN Outcome(got.tm, "TeamNotFound", None)
    ELSE IF ~got.ret[1].config.auto_recovery THEN Outcome(got.tm, "Disabled", None)
    ELSE IF /\ IsSome(recovery_member(got.ret[1].config, member_id))
            /\ cap_reached(recovery_member(got.ret[1].config, member_id)[1],
                           got.ret[1].config)
         THEN Outcome(got.tm, "MaxAttempts", None)
    ELSE recovery_reported(
             report_member_failure(got.tm, project_path, team_id, member_id),
             team_id, project_path, member_id, reason)

\* trigger_recovery, all of it under one manager lock; ret: the notification emitted after it
trigger_recovery(tm, team_id, project_path, member_id, reason) ==
    recovery_checked(get_team(tm, project_path, team_id),
                     team_id, project_path, member_id, reason)

----------------------------------------------------------------------------
(* The passing of time: every stored DateTime grows d seconds older, every *)
(* deadline comes d seconds nearer.                                         *)

Older(age, d) == Min(age + d, AgeCap)
OlderOpt(o, d) == IF IsSome(o) THEN Some(Older(o[1], d)) ELSE None

aged_member(m, d) == [m EXCEPT !.last_failure = OlderOpt(@, d)]

aged_config(c, d) ==
    [c EXCEPT !.orchestrator = aged_member(@, d),
              !.workers = [i \in 1..Len(c.workers) |-> aged_member(c.workers[i], d)]]

aged_state(s, d) ==
    [s EXCEPT !.last_active = Older(@, d),
              !.members = [m \in DOMAIN s.members |->
                              [s.members[m] EXCEPT !.last_heartbeat = OlderOpt(@, d)]],
              !.session_info = IF IsSome(s.session_info)
                               THEN Some([s.session_info[1] EXCEPT !.saved_at = Older(@, d)])
                               ELSE None]

aged_manager(tm, d) ==
    [tm EXCEPT
        !.configs = [k \in DOMAIN tm.configs |-> aged_config(tm.configs[k], d)],
        !.states = [k \in DOMAIN tm.states |-> aged_state(tm.states[k], d)],
        !.indexes = [p \in DOMAIN tm.indexes |->
                        [i \in 1..Len(tm.indexes[p]) |->
                            [tm.indexes[p][i] EXCEPT !.last_active = Older(@, d)]]],
        !.active_teams = [t \in DOMAIN tm.active_teams |->
                             TeamData(aged_config(tm.active_teams[t].config, d),
                                      aged_state(tm.active_teams[t].state, d))]]

aged_watchdog(w, d) ==
    [w EXCEPT
        !.until_tick = Max(0, @ - d),
        !.monitored_teams =
            [t \in DOMAIN w.monitored_teams |->
                [w.monitored_teams[t] EXCEPT !.pending_recoveries =
                    [m \in DOMAIN w.monitored_teams[t].pending_recoveries |->
                        Max(0, w.monitored_teams[t].pending_recoveries[m] - d * 1000)]]]]

----------------------------------------------------------------------------
(* The state after construction: TeamManager::new over an empty store,      *)
(* RecoveryWatchdog::new started by lib.rs, nothing sent, nobody calling.   *)

NoOp == [op |-> "init", project |-> "", team |-> "", member |-> "", res |-> "",
         ret |-> None, reason |-> "", pre_task |-> None, preempted |-> FALSE,
         after_failure |-> FALSE, after_pause |-> FALSE, pre_sessions |-> {}]

Caller_new == [pc |-> "idle", project |-> "", team |-> "", member |-> "", status |-> "",
               waited |-> FALSE, loaded |-> None]

Init ==
    /\ mgr = TeamManager_new
    /\ wd = RecoveryWatchdog_new
    /\ rx = <<>>
    /\ emitted = <<>>
    /\ lastOp = NoOp
    /\ elapsed = 0
    /\ replaced = {}
    /\ preempted = {}
    /\ lock = None
    /\ callers = [c \in 1..NumCallers |-> Caller_new]
    /\ acquired = <<>>

\* Names the callers can hold: every uuid drawn so far, stale ones included
KnownMembers == {MemberUuid(i) : i \in 1..(mgr.uuid_member - 1)}
KnownTeams == {TeamUuid(i) : i \in 1..(mgr.uuid_team - 1)}

\* State.current_task of a member as stored, None if there is no such entry
CurrentTask(tm, p, t, m) ==
    IF <<p, t>> \in DOMAIN tm.states /\ m \in DOMAIN tm.states[<<p, t>>].members
    THEN tm.states[<<p, t>>].members[m].current_task
    ELSE None

\* The step before was a successful report_member_failure(p, t, m)
AfterFailure(p, t, m) ==
    /\ lastOp.op = "report_member_failure"
    /\ lastOp.res = "Ok"
    /\ lastOp.project = p
    /\ lastOp.team = t
    /\ lastOp.member = m

\* The step before was a successful pause_team(p, t)
AfterPause(p, t) ==
    /\ lastOp.op = "pause_team"
    /\ lastOp.res = "Ok"
    /\ lastOp.project = p
    /\ lastOp.team = t

\* The members of the stored State that hold a terminal or a Claude session
WithSession(tm, p, t) ==
    IF <<p, t>> \notin DOMAIN tm.states THEN {}
    ELSE {m \in DOMAIN tm.states[<<p, t>>].members :
             \/ IsSome(tm.states[<<p, t>>].members[m].terminal_id)
             \/ IsSome(tm.states[<<p, t>>].members[m].claude_session_id)}

Done(name, p, t, m, r) ==
    [op |-> name, project |-> p, team |-> t, member |-> m, res |-> r.res,
     ret |-> r.ret, reason |-> "", pre_task |-> CurrentTask(mgr, p, t, m),
     preempted |-> FALSE, after_failure |-> AfterFailure(p, t, m),
     after_pause |-> name = "resume_team" /\ AfterPause(p, t),
     pre_sessions |-> IF name = "resume_team" THEN WithSession(mgr, p, t) ELSE {}]

Step(name) == [NoOp EXCEPT !.op = name]

\* A pending recovery of the member that is not yet due
PendingNotDue(t, m) ==
    /\ t \in DOMAIN wd.monitored_teams
    /\ m \in DOMAIN wd.monitored_teams[t].pending_recoveries
    /\ ~is_due(wd.monitored_teams[t].pending_recoveries[m])

----------------------------------------------------------------------------
(* commands/team.rs: each command locks the SharedTeamManager, makes one    *)
(* TeamManager call and unlocks: one step.                                  *)

\* The largest failure_count on file
Failures(tm) ==
    LET Counts(c) == {c.orchestrator.failure_count} \cup
                     {c.workers[i].failure_count : i \in 1..Len(c.workers)}
        all == UNION {Counts(tm.configs[k]) : k \in DOMAIN tm.configs} \cup {0}
    IN CHOOSE n \in all : \A x \in all : x <= n

\* The runs looked at: at most MaxMembers member ids drawn, no failure_count above MaxFailures
Bounded(tm) == tm.uuid_member <= MaxMembers + 1 /\ Failures(tm) <= MaxFailures

Command(name, p, t, m, r) ==
    /\ Bounded(r.tm)
    /\ mgr' = r.tm
    /\ lastOp' = Done(name, p, t, m, r)
    /\ UNCHANGED <<wd, rx, emitted, elapsed, lock, callers, acquired>>

team_create(input) ==
    /\ Command("create_team", input.project_path, "", "", create_team(mgr, input))
    /\ UNCHANGED <<replaced, preempted>>

team_get(p, t) ==
    /\ Command("get_team", p, t, "", get_team(mgr, p, t))
    /\ UNCHANGED <<replaced, preempted>>

team_update(p, t, name, auto_recovery, max_recovery_attempts) ==
    /\ Command("update_team", p, t, "",
               update_team(mgr, p, t, name, auto_recovery, max_recovery_attempts))
    /\ UNCHANGED <<replaced, preempted>>

team_archive(p, t) ==
    /\ Command("archive_team", p, t, "", archive_team(mgr, p, t))
    /\ UNCHANGED <<replaced, preempted>>

team_add_member(p, t, role, agent_type) ==
    /\ Command("add_member", p, t, "", add_member(mgr, p, t, role, agent_type))
    /\ UNCHANGED <<replaced, preempted>>

team_remove_member(p, t, m) ==
    /\ Command("remove_member", p, t, m, remove_member(mgr, p, t, m))
    /\ UNCHANGED <<replaced, preempted>>

team_update_member_session(p, t, m, terminal_id, claude_session_id) ==
    /\ Command("update_member_session", p, t, m,
               update_member_session(mgr, p, t, m, terminal_id, claude_session_id))
    /\ UNCHANGED <<replaced, preempted>>

team_update_member_status(p, t, m, status) ==
    LET r == update_member_status(mgr, p, t, m, status)
    IN /\ Command("update_member_status", p, t, m, r)
       /\ preempted' = IF r.res # "Ok" THEN preempted
                       ELSE IF status = "Failed" THEN preempted \ {<<t, m>>}
                       ELSE IF PendingNotDue(t, m) THEN preempted \cup {<<t, m>>}
                       ELSE preempted
       /\ UNCHANGED replaced

team_update_member_task(p, t, m, task_info) ==
    /\ Command("update_member_task", p, t, m, update_member_task(mgr, p, t, m, task_info))
    /\ UNCHANGED <<replaced, preempted>>

team_member_heartbeat(p, t, m) ==
    /\ Command("record_heartbeat", p, t, m, record_heartbeat(mgr, p, t, m))
    /\ UNCHANGED <<replaced, preempted>>

team_pause(p, t, terminal_sessions) ==
    /\ Command("pause_team", p, t, "", pause_team(mgr, p, t, terminal_sessions))
    /\ UNCHANGED <<replaced, preempted>>

team_resume(p, t) ==
    /\ Command("resume_team", p, t, "", resume_team(mgr, p, t))
    /\ UNCHANGED <<replaced, preempted>>

team_report_member_failure(p, t, m) ==
    LET r == report_member_failure(mgr, p, t, m)
    IN /\ Command("report_member_failure", p, t, m, r)
       /\ preempted' = IF r.res = "Ok" THEN preempted \ {<<t, m>>} ELSE preempted
       /\ UNCHANGED replaced

team_create_replacement(p, t, m) ==
    LET r == create_replacement_member(mgr, p, t, m)
    IN /\ Command("create_replacement_member", p, t, m, r)
       /\ replaced' = IF r.res = "Ok" THEN replaced \cup {<<m, r.ret[1].id>>} ELSE replaced
       /\ UNCHANGED preempted

team_get_recovery_context(p, t, m) ==
    /\ Command("build_recovery_context", p, t, m, build_recovery_context(mgr, p, t, m))
    /\ UNCHANGED <<replaced, preempted>>

team_get_recovery_history(p, t) ==
    /\ Command("get_recovery_history", p, t, "",
               get_recovery_history(mgr, p, t, DefaultHistoryLimit))
    /\ UNCHANGED <<replaced, preempted>>

team_get_members(p, t) ==
    /\ Command("get_members_with_state", p, t, "", get_members_with_state(mgr, p, t))
    /\ UNCHANGED <<replaced, preempted>>

\* TeamManager::record_recovery_event called on its own (it has no Tauri command)
manager_record_recovery_event(p, t, m, role, replacement_id, reason, success) ==
    /\ mgr.uuid_event <= MaxAppends
    /\ Command("record_recovery_event", p, t, m,
               record_recovery_event(mgr, p, t, m, role, replacement_id, reason, None, success))
    /\ UNCHANGED <<replaced, preempted>>

----------------------------------------------------------------------------
(* recovery_watchdog.rs: send_watchdog_command and run_watchdog_loop.       *)
(* The loop is one task: it handles a tick or one command at a time.  In a  *)
(* tick it awaits the manager lock once per monitored team (check_health)   *)
(* and once per due recovery (trigger_recovery); commands and other callers *)
(* of the manager come in between.                                          *)

StartMonitoring(team_id, project_path) ==
    [cmd |-> "StartMonitoring", team_id |-> team_id, project_path |-> project_path]
StopMonitoring(team_id) == [cmd |-> "StopMonitoring", team_id |-> team_id]
TriggerRecovery(team_id, member_id, reason) ==
    [cmd |-> "TriggerRecovery", team_id |-> team_id, member_id |-> member_id,
     reason |-> reason]
UpdateConfig(config) == [cmd |-> "UpdateConfig", config |-> config]
Shutdown == [cmd |-> "Shutdown"]

send_watchdog_command(cmd) ==
    /\ wd.running
    /\ Len(rx) < MaxQueue
    /\ rx' = Append(rx, cmd)
    /\ lastOp' = Step("send_watchdog_command")
    /\ UNCHANGED <<mgr, wd, emitted, elapsed, replaced, preempted, lock, callers, acquired>>

Receiving(cmd) ==
    /\ wd.running
    /\ wd.pc = "select"
    /\ rx # <<>>
    /\ Head(rx).cmd = cmd
    /\ rx' = Tail(rx)

PreemptedOf(team_id) == {x \in preempted : x[1] = team_id}

recv_StartMonitoring ==
    /\ Receiving("StartMonitoring")
    /\ wd' = [wd EXCEPT !.monitored_teams =
                  Put(@, Head(rx).team_id, MonitoredTeam(Head(rx).project_path))]
    /\ preempted' = preempted \ PreemptedOf(Head(rx).team_id)
    /\ lastOp' = Step("watchdog")
    /\ UNCHANGED <<mgr, emitted, elapsed, replaced, lock, callers, acquired>>

\* HashMap::remove hands back the entry it took out: kept as the step's ret
Stopped(team_id) ==
    [Step("watchdog") EXCEPT
        !.team = team_id, !.reason = "StopMonitoring",
        !.ret = IF team_id \in DOMAIN wd.monitored_teams
                THEN Some(wd.monitored_teams[team_id]) ELSE None]

\* A StopMonitoring handler that leaves the team in the polled set
recv_StopMonitoring_keeping ==
    /\ Receiving("StopMonitoring")
    /\ lastOp' = Stopped(Head(rx).team_id)
    /\ UNCHANGED <<mgr, wd, emitted, elapsed, replaced, preempted, lock, callers, acquired>>

recv_StopMonitoring ==
    /\ Receiving("StopMonitoring")
    /\ wd' = [wd EXCEPT !.monitored_teams = Remove(@, Head(rx).team_id)]
    /\ preempted' = preempted \ PreemptedOf(Head(rx).team_id)
    /\ lastOp' = Stopped(Head(rx).team_id)
    /\ UNCHANGED <<mgr, emitted, elapsed, replaced, lock, callers, acquired>>

recv_UpdateConfig ==
    /\ Receiving("UpdateConfig")
    /\ wd' = [wd EXCEPT !.config = Head(rx).config]
    /\ lastOp' = Step("watchdog")
    /\ UNCHANGED <<mgr, emitted, elapsed, replaced, preempted, lock, callers, acquired>>

recv_Shutdown ==
    /\ Receiving("Shutdown")
    /\ wd' = [wd EXCEPT !.running = FALSE]
    /\ lastOp' = Step("watchdog")
    /\ UNCHANGED <<mgr, emitted, elapsed, replaced, preempted, lock, callers, acquired>>

\* One call of trigger_recovery and the emit that follows it
Recovery_done(r, team_id, project_path, member_id, reason) ==
    /\ Bounded(r.tm)
    /\ mgr' = r.tm
    /\ emitted' = IF IsSome(r.ret) THEN Append(emitted, r.ret[1]) ELSE emitted
    /\ replaced' = IF r.res = "Recovered"
                   THEN replaced \cup {<<member_id, r.ret[1].replacement_member_id[1]>>}
                   ELSE replaced
    /\ lastOp' = [op |-> "trigger_recovery", project |-> project_path,
                  team |-> team_id, member |-> member_id, res |-> r.res,
                  ret |-> r.ret, reason |-> reason,
                  pre_task |-> CurrentTask(mgr, project_path, team_id, member_id),
                  preempted |-> <<team_id, member_id>> \in preempted,
                  after_failure |-> AfterFailure(project_path, team_id, member_id),
                  after_pause |-> FALSE, pre_sessions |-> {}]
    /\ UNCHANGED <<elapsed, lock, callers, acquired>>

Recovery(team_id, project_path, member_id, reason) ==
    Recovery_done(trigger_recovery(mgr, team_id, project_path, member_id, reason),
                  team_id, project_path, member_id, reason)

recv_TriggerRecovery ==
    /\ Receiving("TriggerRecovery")
    /\ Head(rx).team_id \in DOMAIN wd.monitored_teams
    /\ Recovery(Head(rx).team_id, wd.monitored_teams[Head(rx).team_id].project_path,
                Head(rx).member_id, Head(rx).reason)
    /\ preempted' = IF lastOp'.res \in {"Recovered", "ReplaceFailed"}
                    THEN preempted \ {<<Head(rx).team_id, Head(rx).member_id>>}
                    ELSE preempted
    /\ UNCHANGED wd

\* "if let Some(monitored)": a team that is not monitored is passed over
recv_TriggerRecovery_unmonitored ==
    /\ Receiving("TriggerRecovery")
    /\ Head(rx).team_id \notin DOMAIN wd.monitored_teams
    /\ lastOp' = Step("watchdog")
    /\ UNCHANGED <<mgr, wd, emitted, elapsed, replaced, preempted, lock, callers, acquired>>

\* interval.tick() completes
tick ==
    /\ wd.running
    /\ wd.pc = "select"
    /\ wd.until_tick = 0
    /\ wd' = IF wd.config.enabled
             THEN [wd EXCEPT !.until_tick = wd.interval, !.pc = "check_health",
                             !.to_check = DOMAIN wd.monitored_teams,
                             !.health_reports = {}]
             ELSE [wd EXCEPT !.until_tick = wd.interval]
    /\ lastOp' = Step("watchdog")
    /\ UNCHANGED <<mgr, rx, emitted, elapsed, replaced, preempted, lock, callers, acquired>>

\* A check_health that gives up on its remaining teams when one cannot be read
check_health_halting(team_id) ==
    /\ wd.pc = "check_health"
    /\ team_id \in wd.to_check
    /\ wd' = IF get_members_with_state(mgr, wd.monitored_teams[team_id].project_path,
                                       team_id).res = "Ok"
             THEN [wd EXCEPT !.to_check = @ \ {team_id},
                             !.health_reports = @ \cup team_health(wd, mgr, team_id)]
             ELSE [wd EXCEPT !.to_check = {}]
    /\ lastOp' = Step("watchdog")
    /\ UNCHANGED <<mgr, rx, emitted, elapsed, replaced, preempted, lock, callers, acquired>>

\* check_health: one team of the HashMap, under the manager lock
check_health(team_id) ==
    /\ wd.pc = "check_health"
    /\ team_id \in wd.to_check
    /\ wd' = [wd EXCEPT !.to_check = @ \ {team_id},
                        !.health_reports = @ \cup team_health(wd, mgr, team_id)]
    /\ lastOp' = Step("watchdog")
    /\ UNCHANGED <<mgr, rx, emitted, elapsed, replaced, preempted, lock, callers, acquired>>

\* The schedule pass of the loop, then the first half of execute_pending_recoveries:
\* no await lies between them
schedule_and_collect ==
    /\ wd.pc = "check_health"
    /\ wd.to_check = {}
    /\ LET scheduled == schedule_all(wd, to_schedule(wd))
           collected == collect_due(scheduled)
       IN wd' = [collected EXCEPT
                    !.health_reports = {},
                    !.pc = IF collected.recoveries_to_execute = {} THEN "select"
                           ELSE "execute"]
    /\ preempted' = preempted \ {<<h.team_id, h.member_id>> : h \in to_schedule(wd)}
    /\ lastOp' = Step("watchdog")
    /\ UNCHANGED <<mgr, rx, emitted, elapsed, replaced, lock, callers, acquired>>

\* execute_pending_recoveries, "Execute recoveries": one of the collected recoveries
execute_recovery(rec) ==
    /\ wd.pc = "execute"
    /\ rec \in wd.recoveries_to_execute
    /\ Recovery(rec[1], rec[2], rec[3], "Scheduled recovery")
    /\ wd' = [wd EXCEPT !.recoveries_to_execute = @ \ {rec},
                        !.pc = IF wd.recoveries_to_execute = {rec} THEN "select"
                               ELSE "execute"]
    /\ preempted' = preempted \ {<<rec[1], rec[3]>>}
    /\ UNCHANGED rx

\* d seconds pass
TimePasses(d) ==
    /\ mgr' = aged_manager(mgr, d)
    /\ wd' = aged_watchdog(wd, d)
    /\ lastOp' = Step("clock")
    /\ UNCHANGED <<rx, emitted, replaced, preempted, lock, callers, acquired>>

\* d seconds pass, at most MaxElapsed times
TimeAdvance(d) ==
    /\ elapsed < MaxElapsed
    /\ elapsed' = elapsed + 1
    /\ TimePasses(d)

----------------------------------------------------------------------------
(* What the callers pass in *)

Projects == {"/p"}
TeamNames == {"alpha"}
MemberInputs == {[role |-> "dev", agent_type |-> "claude"]}
TeamInputs ==
    {[name |-> n, project_path |-> p, auto_recovery |-> TRUE,
      max_recovery_attempts |-> 1, members |-> ms] :
        n \in TeamNames, p \in Projects, ms \in {<<>>} \cup {<<x>> : x \in MemberInputs}}
\* Ids in the callers' hands: those handed out so far and one that never was
TeamIds == KnownTeams \cup {"T?"}
MemberIds == KnownMembers \cup {"m?"}
Statuses == {"Active", "Failed"}
Tasks == {[task_id |-> "task-1", spec_id |-> Some("spec-1"), phase |-> "impl", progress |-> 50]}
TaskInfos == {None} \cup {Some(x) : x \in Tasks}
TerminalSessions(t) ==
    {<<>>} \cup {<<[member_id |-> m, terminal_id |-> "term", claude_session_id |-> None,
                    cwd |-> "/p"]>> : m \in KnownMembers}

----------------------------------------------------------------------------
(* The manager behind its Tauri commands: membership and recovery *)

MemberCommands ==
    \E p \in Projects, t \in TeamIds, m \in MemberIds :
        \/ team_remove_member(p, t, m)
        \/ \E task_info \in TaskInfos : team_update_member_task(p, t, m, task_info)
        \/ team_report_member_failure(p, t, m)
        \/ team_create_replacement(p, t, m)

Next ==
    \/ \E input \in TeamInputs : team_create(input)
    \/ \E p \in Projects, t \in TeamIds, x \in MemberInputs :
          team_add_member(p, t, x.role, x.agent_type)
    \/ MemberCommands

Spec == Init /\ [][Next]_vars

----------------------------------------------------------------------------
(* The manager behind its Tauri commands: the life of a team *)

LifecycleCommands ==
    \E p \in Projects, t \in TeamIds :
        \/ team_get(p, t)
        \/ team_update(p, t, None, Some(FALSE), None)
        \/ team_archive(p, t)
        \/ \E ts \in TerminalSessions(t) : team_pause(p, t, ts)
        \/ team_resume(p, t)
        \/ \E m \in MemberIds : team_update_member_session(p, t, m, Some("term"), Some("claude"))
        \/ \E m \in MemberIds, status \in Statuses : team_update_member_status(p, t, m, status)

NextLifecycle ==
    \/ \E input \in TeamInputs : team_create(input)
    \/ LifecycleCommands

SpecLifecycle == Init /\ [][NextLifecycle]_vars

----------------------------------------------------------------------------
(* Properties of the manager's recovery and membership operations *)

MembersOf(config) == {config.orchestrator} \cup Range(config.workers)

\* The step is create_replacement_member(m), taken right after a successful
\* report_member_failure(m) on the same team
ReplacedRightAfterFailure ==
    /\ lastOp'.op = "create_replacement_member"
    /\ AfterFailure(lastOp'.project, lastOp'.team, lastOp'.member)

\* C1: after report_member_failure(m) followed immediately by
\* create_replacement_member(m), the keys of State.members no longer hold m and
\* hold exactly one new id r; r is the one member of Config with
\* recovered_from == m, and r's State.current_task is m's as it was at the failure.
C1_ReplacementTakesOver ==
    [][ReplacedRightAfterFailure =>
        LET k == <<lastOp.project, lastOp.team>>
            m == lastOp.member
            before == DOMAIN mgr.states[k].members
            after == DOMAIN mgr'.states[k].members
            heirs == {x \in MembersOf(mgr'.configs[k]) : x.recovered_from = Some(m)}
        IN /\ lastOp'.res = "Ok"
           /\ m \notin after
           /\ Cardinality(after \ before) = 1
           /\ before \ after = {m}
           /\ {x.id : x \in heirs} = after \ before
           /\ Cardinality(heirs) = 1
           /\ \A r \in after \ before :
                 mgr'.states[k].members[r].current_task = lastOp.pre_task]_vars

\* A member holding a task was reported failed and replaced in the next step
C1_Witness ==
    /\ lastOp.op = "create_replacement_member"
    /\ lastOp.res = "Ok"
    /\ lastOp.after_failure
    /\ IsSome(lastOp.pre_task)

\* The step is remove_member on the id of the team's orchestrator
RemovesOrchestrator ==
    /\ lastOp'.op = "remove_member"
    /\ <<lastOp'.project, lastOp'.team>> \in DOMAIN mgr.configs
    /\ mgr.configs[<<lastOp'.project, lastOp'.team>>].orchestrator.id = lastOp'.member

\* C8: remove_member with the current orchestrator's id fails with InvalidOperation
\* and leaves the persisted Config and State as they were.
C8_OrchestratorStays ==
    [][RemovesOrchestrator =>
        /\ lastOp'.res = "InvalidOperation"
        /\ mgr'.configs = mgr.configs
        /\ mgr'.states = mgr.states]_vars

\* remove_member was refused for a team that has workers too
C8_Witness ==
    /\ lastOp.op = "remove_member"
    /\ lastOp.res = "InvalidOperation"
    /\ mgr.configs[<<lastOp.project, lastOp.team>>].orchestrator.id = lastOp.member
    /\ mgr.configs[<<lastOp.project, lastOp.team>>].workers # <<>>

----------------------------------------------------------------------------
(* Properties of pause_team and resume_team *)

\* The team a step acted on
Acted == <<lastOp'.project, lastOp'.team>>

SessionsCleared(state) ==
    \A m \in DOMAIN state.members :
        state.members[m].terminal_id = None /\ state.members[m].claude_session_id = None

\* C9: pause_team followed by resume_team leaves Config unchanged and ends with
\* State.status Active and every member's terminal_id and claude_session_id
\* cleared; resume_team on a team that is not Paused fails with InvalidOperation
\* and changes nothing.
C9_PauseThenResume ==
    [][/\ (lastOp'.op = "pause_team" /\ lastOp'.res = "Ok")
            => mgr'.configs = mgr.configs
       /\ (lastOp'.op = "resume_team" /\ AfterPause(lastOp'.project, lastOp'.team))
            => /\ lastOp'.res = "Ok"
               /\ mgr'.configs = mgr.configs
               /\ mgr'.states[Acted].status = "Active"
               /\ SessionsCleared(mgr'.states[Acted])
       /\ (/\ lastOp'.op = "resume_team"
           /\ Acted \in DOMAIN mgr.configs
           /\ mgr.states[Acted].status # "Paused")
            => /\ lastOp'.res = "InvalidOperation"
               /\ mgr' = mgr]_vars

\* A team whose members held terminals was paused and resumed in the next step
C9_Witness ==
    /\ lastOp.op = "resume_team"
    /\ lastOp.res = "Ok"
    /\ lastOp.after_pause
    /\ lastOp.pre_sessions # {}
    /\ SessionsCleared(mgr.states[<<lastOp.project, lastOp.team>>])

----------------------------------------------------------------------------
(* A long history: events recorded one after another for a team, while the  *)
(* team is read, paused and resumed in between.                             *)

NextHistory ==
    \/ \E input \in TeamInputs : team_create(input)
    \/ \E p \in Projects, t \in KnownTeams :
          \/ manager_record_recovery_event(p, t, "m1", "orchestrator", "none",
                                           "Agent reported failure", FALSE)
          \/ team_get_recovery_history(p, t)
          \/ team_pause(p, t, <<>>)
          \/ team_resume(p, t)

SpecHistory == Init /\ [][NextHistory]_vars

\* history.events is newest-first
NewestFirst(events) ==
    \A i, j \in 1..Len(events) : i < j => events[i].timestamp > events[j].timestamp

\* The step left the events as they were, or put one new event at the head and
\* dropped what lies beyond the cap
AppendedOrKept(before, after) ==
    \/ after = before
    \/ /\ after # <<>>
       /\ after[1].id = mgr.uuid_event
       /\ Tail(after) = SubSeq(before, 1, Min(Len(before), HistoryCap - 1))

\* C10: a team's History holds at most 100 events, newest first; an append to a
\* history of exactly 100 events puts the event at the head and drops the oldest
\* (last) one; apart from that, events are never modified or reordered.
C10_HistoryCapped ==
    /\ [](\A k \in DOMAIN mgr.histories :
            /\ Len(mgr.histories[k].events) <= HistoryCap
            /\ NewestFirst(mgr.histories[k].events))
    /\ [][\A k \in DOMAIN mgr.histories :
            /\ k \in DOMAIN mgr'.histories
            /\ AppendedOrKept(mgr.histories[k].events, mgr'.histories[k].events)
            /\ (lastOp'.op = "record_recovery_event" /\ Acted = k
                  /\ Len(mgr.histories[k].events) = HistoryCap)
               => /\ Len(mgr'.histories[k].events) = HistoryCap
                  /\ mgr'.histories[k].events[1].id = mgr.uuid_event
                  /\ Tail(mgr'.histories[k].events) =
                        SubSeq(mgr.histories[k].events, 1, HistoryCap - 1)]_vars

\* The 101st event was appended: the history is full and the first event is gone
C10_Witness ==
    /\ lastOp.op = "record_recovery_event"
    /\ \E k \in DOMAIN mgr.histories :
          /\ Len(mgr.histories[k].events) = HistoryCap
          /\ mgr.histories[k].events[1].id = HistoryCap + 1
          /\ mgr.histories[k].events[HistoryCap].id = 2

----------------------------------------------------------------------------
(* The watchdog at work: its loop, the commands sent to it, the calls that  *)
(* fail, heal and replace members behind its back, and the clock.           *)

WatchdogConfigs == {[WatchdogConfig_default EXCEPT !.recovery_delay_ms = 0]}
Reasons == {"Manual"}
\* Teams of an orchestrator alone
SoloTeamInputs == {input \in TeamInputs : input.members = <<>>}
\* Seconds the clock moves in one step: one check interval
Lapses == {DefaultCheckIntervalSecs}

WatchdogCommands ==
    \/ \E t \in KnownTeams, p \in Projects : send_watchdog_command(StartMonitoring(t, p))
    \/ \E t \in KnownTeams, m \in KnownMembers, reason \in Reasons :
          send_watchdog_command(TriggerRecovery(t, m, reason))

WatchdogLoop ==
    \/ recv_StartMonitoring
    \/ recv_TriggerRecovery
    \/ recv_TriggerRecovery_unmonitored
    \/ tick
    \/ \E t \in wd.to_check : check_health(t)
    \/ schedule_and_collect
    \/ \E rec \in wd.recoveries_to_execute : execute_recovery(rec)

Supervisors ==
    \E p \in Projects, t \in KnownTeams, m \in KnownMembers :
        \/ \E status \in Statuses : team_update_member_status(p, t, m, status)
        \/ team_report_member_failure(p, t, m)
        \/ team_create_replacement(p, t, m)

NextWatchdog ==
    \/ \E input \in SoloTeamInputs : team_create(input)
    \/ Supervisors
    \/ WatchdogCommands
    \/ WatchdogLoop
    \/ \E d \in Lapses : TimeAdvance(d)

SpecWatchdog == Init /\ [][NextWatchdog]_vars

----------------------------------------------------------------------------
(* Properties of the watchdog's recoveries *)

\* The success events of a history that name the member as failed
Successes(history, m) ==
    {i \in 1..Len(history.events) :
        history.events[i].success /\ history.events[i].failed_member_id = m}

\* C2: each failed member id is replaced at most once: no two replacements were
\* ever made for one id, no Config holds two members with the same recovered_from,
\* and no History holds two success events naming the same failed member.
C2_NoDoubleRecovery ==
    /\ \A a, b \in replaced : a[1] = b[1] => a = b
    /\ \A k \in DOMAIN mgr.configs :
          \A x, y \in MembersOf(mgr.configs[k]) :
             (IsSome(x.recovered_from) /\ x.recovered_from = y.recovered_from) => x = y
    /\ \A k \in DOMAIN mgr.histories :
          \A m \in KnownMembers : Cardinality(Successes(mgr.histories[k], m)) <= 1

\* A member the watchdog had replaced was put up for recovery once more
C2_Witness ==
    /\ lastOp.op \in {"trigger_recovery", "create_replacement_member"}
    /\ lastOp.member \in {a[1] : a \in replaced}
    /\ lastOp.res \in {"ReportFailed", "MemberNotFound"}
    /\ \E k \in DOMAIN mgr.histories : Successes(mgr.histories[k], lastOp.member) # {}

\* The outcomes of trigger_recovery that leave the manager's documents alone
NoRecovery == {"TeamNotFound", "Disabled", "MaxAttempts", "ReportFailed"}

\* C4: a recovery scheduled for a member that an update_member_status then set
\* to a non-Failed status, before the scheduled time was due, is not executed:
\* no failure_count increment, no replacement, no history event.
C4_PreemptedNotRecovered ==
    (/\ lastOp.op = "trigger_recovery"
     /\ lastOp.reason = "Scheduled recovery"
     /\ lastOp.preempted)
    => lastOp.res \in NoRecovery

\* The member's Config failure_count has reached the team's max_recovery_attempts
AtCap(tm, p, t, m) ==
    /\ <<p, t>> \in DOMAIN tm.configs
    /\ IsSome(find_member(tm.configs[<<p, t>>], m))
    /\ find_member(tm.configs[<<p, t>>], m)[1].failure_count
          >= tm.configs[<<p, t>>].max_recovery_attempts

\* C5: trigger_recovery, scheduled or forced, for a member whose failure_count
\* has reached max_recovery_attempts is a no-op: no replacement, no increment of
\* failure_count, no history event, nothing emitted.
C5_CapHolds ==
    [][(/\ lastOp'.op = "trigger_recovery"
        /\ AtCap(mgr, lastOp'.project, lastOp'.team, lastOp'.member))
       => /\ mgr'.configs = mgr.configs
          /\ mgr'.states = mgr.states
          /\ mgr'.histories = mgr.histories
          /\ mgr'.uuid_member = mgr.uuid_member
          /\ emitted' = emitted]_vars

\* A scheduled recovery came due for a member at its cap and was dropped
C5_Witness ==
    /\ lastOp.op = "trigger_recovery"
    /\ lastOp.reason = "Scheduled recovery"
    /\ lastOp.res = "MaxAttempts"
    /\ AtCap(mgr, lastOp.project, lastOp.team, lastOp.member)

----------------------------------------------------------------------------
(* Forced recoveries: TriggerRecovery commands for the members of monitored *)
(* teams, whose members are given tasks and fail in between.                *)

NextForced ==
    \/ \E input \in TeamInputs : team_create(input)
    \/ \E p \in Projects, t \in KnownTeams, m \in KnownMembers :
          \/ \E task \in Tasks : team_update_member_task(p, t, m, Some(task))
          \/ team_report_member_failure(p, t, m)
    \/ \E t \in KnownTeams, p \in Projects : send_watchdog_command(StartMonitoring(t, p))
    \/ \E t \in KnownTeams, m \in KnownMembers, reason \in Reasons :
          send_watchdog_command(TriggerRecovery(t, m, reason))
    \/ recv_StartMonitoring
    \/ recv_TriggerRecovery
    \/ recv_TriggerRecovery_unmonitored

SpecForced == Init /\ [][NextForced]_vars

\* C7: the success event recorded for a member that held a task when it failed
\* and was replaced names that task: its task_id, and its spec_id when the task
\* had one, are those of the failed member's current_task at the failure.
C7_EventNamesTask ==
    (/\ lastOp.op = "trigger_recovery"
     /\ lastOp.res = "Recovered"
     /\ IsSome(lastOp.pre_task))
    => LET event == mgr.histories[<<lastOp.project, lastOp.team>>].events[1]
           task == lastOp.pre_task[1]
       IN /\ event.success
          /\ event.failed_member_id = lastOp.member
          /\ event.task_id = Some(task.task_id)
          /\ IsSome(task.spec_id) => event.spec_id = task.spec_id

----------------------------------------------------------------------------
(* commands/team.rs, team_update_member_status taken apart: the caller       *)
(* awaits state.lock(), and update_member_status under the guard reads the  *)
(* team, modifies it and writes it back.                                    *)

\* A lock that lets everybody through
lock_open(l) == TRUE

\* tokio::sync::Mutex: lock().await completes only while nobody holds the guard
lock_free(l) == l = None

\* A command arrives
call(c, p, t, m, status) ==
    /\ callers[c].pc = "idle"
    /\ Len(acquired) + Cardinality({x \in DOMAIN callers : callers[x].pc = "waiting"}) < MaxCalls
    /\ callers' = [callers EXCEPT ![c] =
                      [pc |-> "waiting", project |-> p, team |-> t, member |-> m,
                       status |-> status, waited |-> ~lock_free(lock), loaded |-> None]]
    /\ lastOp' = Step("caller")
    /\ UNCHANGED <<mgr, wd, rx, emitted, elapsed, replaced, preempted, lock, acquired>>

\* let mut manager = state.lock().await
acquire(c) ==
    /\ callers[c].pc = "waiting"
    /\ lock_free(lock)
    /\ lock' = Some(c)
    /\ acquired' = Append(acquired, [caller |-> c, team |-> callers[c].team,
                                     member |-> callers[c].member,
                                     status |-> callers[c].status,
                                     waited |-> callers[c].waited])
    /\ callers' = [callers EXCEPT ![c].pc = "locked"]
    /\ lastOp' = Step("caller")
    /\ UNCHANGED <<mgr, wd, rx, emitted, elapsed, replaced, preempted>>

\* self.storage.get_team(project_path, team_id)
load(c) ==
    /\ callers[c].pc = "locked"
    /\ callers' = [callers EXCEPT
                      ![c].pc = "loaded",
                      ![c].loaded = Some(storage_get_team(mgr, callers[c].project,
                                                          callers[c].team))]
    /\ lastOp' = Step("caller")
    /\ UNCHANGED <<mgr, wd, rx, emitted, elapsed, replaced, preempted, lock, acquired>>

\* The rest of update_member_status, then the guard is dropped
store(c) ==
    /\ callers[c].pc = "loaded"
    /\ LET r == status_written(mgr, callers[c].loaded[1], callers[c].project,
                               callers[c].team, callers[c].member, callers[c].status)
       IN /\ mgr' = r.tm
          /\ lastOp' = Done("update_member_status", callers[c].project, callers[c].team,
                            callers[c].member, r)
    /\ lock' = None
    /\ callers' = [callers EXCEPT ![c] = Caller_new]
    /\ UNCHANGED <<wd, rx, emitted, elapsed, replaced, preempted, acquired>>

NextLock ==
    \/ \E input \in TeamInputs : team_create(input)
    \/ \E c \in 1..NumCallers, p \in Projects, t \in KnownTeams, m \in KnownMembers,
          status \in Statuses : call(c, p, t, m, status)
    \/ \E c \in 1..NumCallers : acquire(c)
    \/ \E c \in 1..NumCallers : load(c)
    \/ \E c \in 1..NumCallers : store(c)

SpecLock == Init /\ [][NextLock]_vars

\* No update is under way
Quiescent == \A c \in DOMAIN callers : callers[c].pc \in {"idle", "waiting"}

\* The updates that took the lock for this member of this team, in order
UpdatesOf(k, m) ==
    SelectSeq(acquired, LAMBDA a : a.team = k[2] /\ a.member = m)

\* C6: the read-modify-write of every caller runs under the one manager lock, so
\* no update is lost and the updates land in the order the lock was taken: once
\* the callers are through, every member that was updated holds the status of
\* the last update to take the lock for it, whatever was done to other members.
C6_NoLostUpdate ==
    Quiescent =>
        \A k \in DOMAIN mgr.states : \A m \in DOMAIN mgr.states[k].members :
            UpdatesOf(k, m) # <<>> =>
                mgr.states[k].members[m].status =
                    UpdatesOf(k, m)[Len(UpdatesOf(k, m))].status

\* Two callers were at it at once, one waiting for the lock while the other held
\* it, with different members; both are through
C6_Witness ==
    /\ Quiescent
    /\ \E i, j \in DOMAIN acquired :
          /\ i < j
          /\ acquired[i].caller # acquired[j].caller
          /\ acquired[i].member # acquired[j].member
          /\ acquired[i].status = "Failed"
          /\ acquired[j].waited
          /\ \A c \in DOMAIN callers : callers[c].pc = "idle"

----------------------------------------------------------------------------
(* The watchdog left running: the clock never stops, the interval keeps      *)
(* ticking and the loop, a spawned task of its own, is always run on.       *)
(* Monitoring of a team is started once and never stopped.                  *)

\* The loop goes on: it takes the command or the tick that is ready, and inside
\* a tick it is granted the manager lock for its health checks
LoopStep ==
    \/ recv_StartMonitoring
    \/ tick
    \/ \E t \in wd.to_check : check_health(t)
    \/ schedule_and_collect

ClockStep == \E d \in Lapses : TimePasses(d) /\ UNCHANGED elapsed

NextLive ==
    \/ \E input \in SoloTeamInputs : team_create(input)
    \/ \E p \in Projects, t \in KnownTeams, m \in KnownMembers, status \in Statuses :
          team_update_member_status(p, t, m, status)
    \/ \E t \in KnownTeams \ DOMAIN wd.monitored_teams, p \in Projects :
          send_watchdog_command(StartMonitoring(t, p))
    \/ LoopStep
    \/ \E rec \in wd.recoveries_to_execute : execute_recovery(rec)
    \/ ClockStep

\* The recoveries a tick has collected are carried out, one trigger_recovery after
\* the other, and the loop is back in its select
ExecutePassEnds == []<>(wd.pc # "execute")

SpecLive ==
    /\ Init
    /\ [][NextLive]_vars
    /\ WF_vars(LoopStep)
    /\ WF_vars(ClockStep)
    /\ ExecutePassEnds

\* The member is one the watchdog is to recover: Failed, below its cap, in a
\* monitored team with auto_recovery on, the watchdog enabled and running
Recoverable(m) ==
    \E k \in DOMAIN mgr.configs :
        /\ k[2] \in DOMAIN wd.monitored_teams
        /\ wd.monitored_teams[k[2]].project_path = k[1]
        /\ wd.running
        /\ wd.config.enabled
        /\ mgr.configs[k].auto_recovery
        /\ IsSome(find_member(mgr.configs[k], m))
        /\ ~cap_reached(find_member(mgr.configs[k], m)[1], mgr.configs[k])
        /\ m \in DOMAIN mgr.states[k].members
        /\ mgr.states[k].members[m].status = "Failed"

\* C3: a member that stays Failed in a monitored team, below its cap, with
\* auto_recovery on and the watchdog enabled, is recovered in the end by a tick's
\* execute pass: it does not stay a Failed member of the team for ever.
C3_FailedMemberRecovered ==
    \A i \in 1..MaxMembers : Recoverable(MemberUuid(i)) ~> ~Recoverable(MemberUuid(i))

\* A recovery of a member that is still Failed has come due, and the tick that
\* finds it so is under way
C3_Witness ==
    /\ wd.pc = "check_health"
    /\ \E t \in DOMAIN wd.monitored_teams :
          \E m \in DOMAIN wd.monitored_teams[t].pending_recoveries :
             /\ Recoverable(m)
             /\ is_due(wd.monitored_teams[t].pending_recoveries[m])

----------------------------------------------------------------------------
(* Storage errors.  Every TeamStorage call returns a Result and the manager  *)
(* passes an Err on with "?": a call of the manager that meets one stops     *)
(* there, with the documents written so far left as written.  A fault names  *)
(* the storage call of create_replacement_member that fails; a failing save  *)
(* writes nothing.                                                          *)

StorageFaults == {"get_team", "save_config", "save_state"}

\* create_replacement_member, the storage call named by fault returning Err
create_replacement_member_failing(tm, p, t, failed_member_id, fault) ==
    LET got == storage_get_team(tm, p, t)
    IN IF fault = "get_team" THEN Err(tm, "StorageError")
       ELSE IF got = None THEN Err(tm, "TeamNotFound")
       ELSE IF find_member(got[1].config, failed_member_id) = None
            THEN Err(tm, "MemberNotFound")
       ELSE LET failed_member == find_member(got[1].config, failed_member_id)[1]
                fresh == TeamMemberConfig_new(MemberUuid(tm.uuid_member),
                                              failed_member.role, failed_member.agent_type)
                replacement == [fresh EXCEPT
                                   !.recovered_from = Some(failed_member_id),
                                   !.current_task_id = failed_member.current_task_id,
                                   !.current_spec_id = failed_member.current_spec_id]
                config == replace_in_config(got[1].config, failed_member_id, replacement)
                drawn == [tm EXCEPT !.uuid_member = @ + 1]
                t1 == save_config(drawn, config)
                state == replace_in_state(got[1].state, failed_member_id, replacement.id)
                t2 == save_state(t1, p, state)
            IN IF fault = "save_config" THEN Err(drawn, "StorageError")
               ELSE IF fault = "save_state" THEN Err(t1, "StorageError")
               ELSE Ok(cache_insert(t2, t, config, state), Some(replacement))

\* trigger_recovery from "Report failure", create_replacement_member meeting the fault
recovery_reported_failing(reported, team_id, project_path, member_id, reason, fault) ==
    IF reported.res # "Ok" THEN Outcome(reported.tm, "ReportFailed", None)
    ELSE recovery_recorded(
             create_replacement_member_failing(reported.tm, project_path, team_id,
                                               member_id, fault),
             team_id, project_path, member_id, reason,
             context_summary_of(build_recovery_context(reported.tm, project_path,
                                                       team_id, member_id)))

\* trigger_recovery from the match on get_team, create_replacement_member meeting the fault
recovery_checked_failing(got, team_id, project_path, member_id, reason, fault) ==
    IF got.res # "Ok" THEN Outcome(got.tm, "TeamNotFound", None)
    ELSE IF ~got.ret[1].config.auto_recovery THEN Outcome(got.tm, "Disabled", None)
    ELSE IF /\ IsSome(recovery_member(got.ret[1].config, member_id))
            /\ cap_reached(recovery_member(got.ret[1].config, member_id)[1],
                           got.ret[1].config)
         THEN Outcome(got.tm, "MaxAttempts", None)
    ELSE recovery_reported_failing(
             report_member_failure(got.tm, project_path, team_id, member_id),
             team_id, project_path, member_id, reason, fault)

\* trigger_recovery in which create_replacement_member meets the fault
trigger_recovery_failing(tm, team_id, project_path, member_id, reason, fault) ==
    recovery_checked_failing(get_team(tm, project_path, team_id),
                             team_id, project_path, member_id, reason, fault)

\* The TriggerRecovery command handled while the store fails
recv_TriggerRecovery_failing(fault) ==
    /\ Receiving("TriggerRecovery")
    /\ Head(rx).team_id \in DOMAIN wd.monitored_teams
    /\ Recovery_done(trigger_recovery_failing(mgr, Head(rx).team_id,
                         wd.monitored_teams[Head(rx).team_id].project_path,
                         Head(rx).member_id, Head(rx).reason, fault),
                     Head(rx).team_id, wd.monitored_teams[Head(rx).team_id].project_path,
                     Head(rx).member_id, Head(rx).reason)
    /\ preempted' = IF lastOp'.res \in {"Recovered", "ReplaceFailed"}
                    THEN preempted \ {<<Head(rx).team_id, Head(rx).member_id>>}
                    ELSE preempted
    /\ UNCHANGED wd

\* Recoveries forced and scheduled, for members known and unknown, of teams whose
\* auto_recovery is switched off in between, over a store that may fail
NextRecovery ==
    \/ \E input \in SoloTeamInputs : team_create(input)
    \/ \E p \in Projects, t \in KnownTeams :
          \/ team_update(p, t, None, Some(FALSE), None)
          \/ \E m \in KnownMembers : team_update_member_status(p, t, m, "Failed")
    \/ \E t \in KnownTeams \ DOMAIN wd.monitored_teams, p \in Projects :
          send_watchdog_command(StartMonitoring(t, p))
    \/ \E t \in KnownTeams, m \in MemberIds, reason \in Reasons :
          send_watchdog_command(TriggerRecovery(t, m, reason))
    \/ recv_StartMonitoring
    \/ recv_TriggerRecovery
    \/ \E fault \in StorageFaults : recv_TriggerRecovery_failing(fault)
    \/ recv_TriggerRecovery_unmonitored
    \/ tick
    \/ \E t \in wd.to_check : check_health(t)
    \/ schedule_and_collect
    \/ \E rec \in wd.recoveries_to_execute : execute_recovery(rec)
    \/ \E d \in Lapses : TimeAdvance(d)

SpecRecovery == Init /\ [][NextRecovery]_vars

\* The ids of the members a Config holds
MemberIdsOf(config) == {x.id : x \in MembersOf(config)}

\* The step is a trigger_recovery that reported the failure and then failed to
\* create the replacement
ReplacementFailed == lastOp'.op = "trigger_recovery" /\ lastOp'.res = "ReplaceFailed"

\* C12: when trigger_recovery has reported the failure and then fails to create
\* the replacement, the member remains in the team (Config and State) in status
\* Failed with its failure_count one higher, exactly one history event with
\* success = false, role "unknown" and replacement id "none" is recorded, and
\* nothing else is done: no member comes or goes and nothing is emitted.
C12_FailedReplacementLeavesMember ==
    [][ReplacementFailed =>
        LET k == Acted
            m == lastOp'.member
            before == mgr.histories[k].events
            after == mgr'.histories[k].events
        IN /\ IsSome(find_member(mgr'.configs[k], m))
           /\ find_member(mgr'.configs[k], m)[1].failure_count
                 = find_member(mgr.configs[k], m)[1].failure_count + 1
           /\ MemberIdsOf(mgr'.configs[k]) = MemberIdsOf(mgr.configs[k])
           /\ DOMAIN mgr'.states[k].members = DOMAIN mgr.states[k].members
           /\ m \in DOMAIN mgr'.states[k].members
           /\ mgr'.states[k].members[m].status = "Failed"
           /\ after # <<>>
           /\ Tail(after) = before
           /\ ~after[1].success
           /\ after[1].failed_member_id = m
           /\ after[1].failed_member_role = "unknown"
           /\ after[1].replacement_member_id = "none"
           /\ emitted' = emitted]_vars

\* A trigger_recovery has failed to create the replacement and recorded the
\* unsuccessful event
C12_Witness ==
    /\ lastOp.op = "trigger_recovery"
    /\ lastOp.res = "ReplaceFailed"
    /\ LET events == mgr.histories[<<lastOp.project, lastOp.team>>].events
       IN events # <<>> /\ ~events[1].success /\ events[1].failed_member_id = lastOp.member

\* The step emitted one "recovery-event" notification for the member, with this flag
Notified(m, success) ==
    /\ Len(emitted') = Len(emitted) + 1
    /\ SubSeq(emitted', 1, Len(emitted)) = emitted
    /\ emitted'[Len(emitted')].failed_member_id = m
    /\ emitted'[Len(emitted')].success = success

\* C13: a failed recovery is reported to the UI as a successful one is: a
\* trigger_recovery that reported the failure emits one notification, with
\* success = true after the replacement was made and with success = false when
\* the replacement could not be created.
C13_FailureNotified ==
    [][/\ (lastOp'.op = "trigger_recovery" /\ lastOp'.res = "Recovered")
             => Notified(lastOp'.member, TRUE)
       /\ ReplacementFailed => Notified(lastOp'.member, FALSE)]_vars

\* Replacements were made and notified, and one could not be created
C13_Witness ==
    /\ lastOp.op = "trigger_recovery"
    /\ lastOp.res = "ReplaceFailed"
    /\ emitted # <<>>
    /\ \A i \in 1..Len(emitted) : emitted[i].success

\* The step handles a TriggerRecovery command for an id that is no member of the team
ForcedForStranger ==
    /\ lastOp'.op = "trigger_recovery"
    /\ lastOp'.reason \in Reasons
    /\ Acted \in DOMAIN mgr.configs
    /\ find_member(mgr.configs[Acted], lastOp'.member) = None

\* C14: a TriggerRecovery command for a member_id that is not a member of the
\* team has its MemberNotFound error reported back to the caller.  A command
\* carries no reply channel and send_watchdog_command has returned once the
\* command was queued, so what can come back is a notification: the step emits
\* one that names the member and is no success.
C14_UnknownMemberReported ==
    [][ForcedForStranger =>
        \E i \in (Len(emitted) + 1)..Len(emitted') :
            emitted'[i].failed_member_id = lastOp'.member /\ ~emitted'[i].success]_vars

\* A forced recovery of an unknown member has met MemberNotFound in report_member_failure
C14_Witness ==
    /\ lastOp.op = "trigger_recovery"
    /\ lastOp.reason \in Reasons
    /\ lastOp.res = "ReportFailed"
    /\ lastOp.member \notin KnownMembers
    /\ <<lastOp.project, lastOp.team>> \in DOMAIN mgr.configs

\* The step is a trigger_recovery for a team whose Config has auto_recovery switched off
RecoveryDisabled ==
    /\ lastOp'.op = "trigger_recovery"
    /\ Acted \in DOMAIN mgr.configs
    /\ ~mgr.configs[Acted].auto_recovery

\* C15: while a team's Config has auto_recovery = false, every trigger_recovery
\* for it, scheduled or forced, aborts silently: no Config (failure_count
\* included), State or History on file changes and no notification is emitted.
C15_DisabledAbortsSilently ==
    [][RecoveryDisabled =>
        /\ lastOp'.res = "Disabled"
        /\ mgr'.configs = mgr.configs
        /\ mgr'.states = mgr.states
        /\ mgr'.histories = mgr.histories
        /\ emitted' = emitted]_vars

\* A scheduled recovery of a Failed member came due after auto_recovery was switched off
C15_Witness ==
    /\ lastOp.op = "trigger_recovery"
    /\ lastOp.res = "Disabled"
    /\ lastOp.reason = "Scheduled recovery"
    /\ <<lastOp.project, lastOp.team>> \in DOMAIN mgr.states
    /\ lastOp.member \in DOMAIN mgr.states[<<lastOp.project, lastOp.team>>].members
    /\ mgr.states[<<lastOp.project, lastOp.team>>].members[lastOp.member].status = "Failed"

----------------------------------------------------------------------------
(* Properties of the member operations *)

\* The member's entry in the stored State before the step, None if there is none
StoredMember(p, t, m) ==
    IF <<p, t>> \in DOMAIN mgr.states /\ m \in DOMAIN mgr.states[<<p, t>>].members
    THEN Some(mgr.states[<<p, t>>].members[m])
    ELSE None

\* The step is the named operation on a member that the stored State holds
ActsOnMember(name) ==
    /\ lastOp'.op = name
    /\ IsSome(StoredMember(lastOp'.project, lastOp'.team, lastOp'.member))

\* C16: a Failed member does not receive a new task: update_member_task on a
\* member whose status is Failed leaves that member's current_task as it was.
C16_FailedMemberKeepsTask ==
    [][(/\ ActsOnMember("update_member_task")
        /\ StoredMember(lastOp'.project, lastOp'.team, lastOp'.member)[1].status = "Failed")
       => CurrentTask(mgr', lastOp'.project, lastOp'.team, lastOp'.member)
              = CurrentTask(mgr, lastOp'.project, lastOp'.team, lastOp'.member)]_vars

\* update_member_task has succeeded on a member that is Failed and now holds the task
C16_Witness ==
    /\ lastOp.op = "update_member_task"
    /\ lastOp.res = "Ok"
    /\ IsSome(StoredMember(lastOp.project, lastOp.team, lastOp.member))
    /\ StoredMember(lastOp.project, lastOp.team, lastOp.member)[1].status = "Failed"
    /\ IsSome(StoredMember(lastOp.project, lastOp.team, lastOp.member)[1].current_task)
    /\ lastOp.pre_task = None

----------------------------------------------------------------------------
(* Members removed while the watchdog watches their team *)

RecoveryStatuses == {"Failed", "Recovering"}

NextRemoval ==
    \/ \E input \in TeamInputs : team_create(input)
    \/ \E p \in Projects, t \in KnownTeams, m \in KnownMembers :
          \/ \E status \in RecoveryStatuses : team_update_member_status(p, t, m, status)
          \/ team_remove_member(p, t, m)
    \/ \E t \in KnownTeams \ DOMAIN wd.monitored_teams, p \in Projects :
          send_watchdog_command(StartMonitoring(t, p))
    \/ recv_StartMonitoring
    \/ tick
    \/ \E t \in wd.to_check : check_health(t)
    \/ schedule_and_collect
    \/ \E rec \in wd.recoveries_to_execute : execute_recovery(rec)
    \/ \E d \in Lapses : TimeAdvance(d)

SpecRemoval == Init /\ [][NextRemoval]_vars

\* The watchdog holds a scheduled recovery of the member
PendingRecovery(w, t, m) ==
    /\ t \in DOMAIN w.monitored_teams
    /\ m \in DOMAIN w.monitored_teams[t].pending_recoveries

\* A recovery of the member is in flight: scheduled in the watchdog, or the member
\* stands Failed or Recovering in the stored State
InRecovery(p, t, m) ==
    \/ PendingRecovery(wd, t, m)
    \/ /\ IsSome(StoredMember(p, t, m))
       /\ StoredMember(p, t, m)[1].status \in RecoveryStatuses

\* The step is a remove_member of one of the workers of the stored Config
RemovesWorker ==
    /\ lastOp'.op = "remove_member"
    /\ Acted \in DOMAIN mgr.configs
    /\ lastOp'.member \in {w.id : w \in Range(mgr.configs[Acted].workers)}

\* C17: remove_member on a worker with a recovery in flight (a scheduled recovery
\* pending in the watchdog, or status Failed or Recovering) is rejected and leaves
\* Config and State as they were; a worker with no recovery in flight is removed.
C17_RecoveringWorkerStays ==
    [][RemovesWorker =>
        IF InRecovery(lastOp'.project, lastOp'.team, lastOp'.member)
        THEN /\ lastOp'.res # "Ok"
             /\ mgr'.configs = mgr.configs
             /\ mgr'.states = mgr.states
        ELSE /\ lastOp'.res = "Ok"
             /\ lastOp'.member \notin {w.id : w \in Range(mgr'.configs[Acted].workers)}]_vars

\* A worker was removed while the watchdog holds its scheduled recovery
C17_Witness ==
    /\ lastOp.op = "remove_member"
    /\ lastOp.res = "Ok"
    /\ PendingRecovery(wd, lastOp.team, lastOp.member)
    /\ lastOp.member \notin DOMAIN mgr.states[<<lastOp.project, lastOp.team>>].members

----------------------------------------------------------------------------
(* The four member updates, called as time passes *)

MemberUpdates ==
    {"update_member_session", "update_member_status", "update_member_task",
     "record_heartbeat"}

NextMembers ==
    \/ \E input \in TeamInputs : team_create(input)
    \/ \E p \in Projects, t \in TeamIds, m \in MemberIds :
          \/ team_update_member_session(p, t, m, Some("term"), Some("claude"))
          \/ \E status \in Statuses : team_update_member_status(p, t, m, status)
          \/ \E task_info \in TaskInfos : team_update_member_task(p, t, m, task_info)
          \/ team_member_heartbeat(p, t, m)
    \/ \E d \in Lapses : TimeAdvance(d)

SpecMembers == Init /\ [][NextMembers]_vars

\* C18: each successful update_member_session, update_member_status,
\* update_member_task and record_heartbeat refreshes both the member's
\* last_heartbeat and the State's last_active to the time of the call.
C18_UpdateRefreshesBoth ==
    [][(lastOp'.op \in MemberUpdates /\ lastOp'.res = "Ok") =>
        /\ mgr'.states[Acted].members[lastOp'.member].last_heartbeat = Some(0)
        /\ mgr'.states[Acted].last_active = 0]_vars

\* A heartbeat was recorded some time after the State was last active
C18_Witness ==
    /\ lastOp.op = "record_heartbeat"
    /\ lastOp.res = "Ok"
    /\ mgr.states[<<lastOp.project, lastOp.team>>].members[lastOp.member].last_heartbeat
           = Some(0)
    /\ mgr.states[<<lastOp.project, lastOp.team>>].last_active > 0

\* The step is one of the four updates, for an id the stored State has no member under
UpdatesStranger ==
    /\ lastOp'.op \in MemberUpdates
    /\ Acted \in DOMAIN mgr.states
    /\ lastOp'.member \notin DOMAIN mgr.states[Acted].members

\* C19: update_member_session, update_member_status, update_member_task and
\* record_heartbeat on a member id that the State does not hold fail with
\* MemberNotFound and leave the stored State and Config and the cache unchanged.
C19_UnknownMemberRefused ==
    [][UpdatesStranger =>
        /\ lastOp'.res = "MemberNotFound"
        /\ mgr'.states = mgr.states
        /\ mgr'.configs = mgr.configs
        /\ mgr'.active_teams = mgr.active_teams]_vars

\* An update for an unknown member was refused on a team that has aged since its creation
C19_Witness ==
    /\ lastOp.op \in MemberUpdates
    /\ lastOp.res = "MemberNotFound"
    /\ <<lastOp.project, lastOp.team>> \in DOMAIN mgr.states
    /\ lastOp.member \notin DOMAIN mgr.states[<<lastOp.project, lastOp.team>>].members
    /\ mgr.states[<<lastOp.project, lastOp.team>>].last_active > 0

----------------------------------------------------------------------------
(* Teams created under names that are, or were, in use *)

NamedInputs ==
    {[name |-> n, project_path |-> p, auto_recovery |-> TRUE,
      max_recovery_attempts |-> 1, members |-> <<>>] :
        n \in {"alpha", "beta"}, p \in Projects}

NextNaming ==
    \/ \E input \in NamedInputs : team_create(input)
    \/ \E p \in Projects, t \in KnownTeams :
          \/ \E input \in NamedInputs : team_update(p, t, Some(input.name), None, None)
          \/ team_pause(p, t, <<>>)
          \/ team_resume(p, t)
          \/ team_archive(p, t)

SpecNaming == Init /\ [][NextNaming]_vars

\* The names on the project's teams.json
NamesOnIndex(tm, p) == {load_index(tm, p)[i].name : i \in 1..Len(load_index(tm, p))}

\* C20: create_team under a name that the project's index already lists, whatever
\* the status of the team that bears it, fails with TeamAlreadyExists and creates
\* nothing.  A create_team that succeeds was for a name the index did not list;
\* one that fails is a TeamAlreadyExists that has written no Config, State,
\* History or index entry and has left the cache as it was.
C20_DuplicateNameRefused ==
    [][lastOp'.op = "create_team" =>
        IF lastOp'.res = "Ok"
        THEN lastOp'.ret[1].config.name \notin NamesOnIndex(mgr, lastOp'.project)
        ELSE /\ lastOp'.res = "TeamAlreadyExists"
             /\ NamesOnIndex(mgr, lastOp'.project) # {}
             /\ mgr'.configs = mgr.configs
             /\ mgr'.states = mgr.states
             /\ mgr'.histories = mgr.histories
             /\ mgr'.indexes = mgr.indexes
             /\ mgr'.active_teams = mgr.active_teams]_vars

\* A create_team was refused though no team listed on the index is Active
C20_Witness ==
    /\ lastOp.op = "create_team"
    /\ lastOp.res = "TeamAlreadyExists"
    /\ load_index(mgr, lastOp.project) # <<>>
    /\ \A i \in 1..Len(load_index(mgr, lastOp.project)) :
           load_index(mgr, lastOp.project)[i].status \in {"Paused", "Archived"}

----------------------------------------------------------------------------
(* Properties of the cache, the session snapshot and the index *)

\* C21: every team held in the manager's cache (active_teams) has State.status
\* Active, in the cached copy and in the stored State: paused and archived
\* teams are never cached, whichever operation last touched them.
C21_CachedTeamsActive ==
    \A t \in DOMAIN mgr.active_teams :
        /\ mgr.active_teams[t].state.status = "Active"
        /\ \A k \in DOMAIN mgr.states : k[2] = t => mgr.states[k].status = "Active"

\* update_team has put a paused team into the cache
C21_Witness ==
    /\ lastOp.op = "update_team"
    /\ lastOp.res = "Ok"
    /\ lastOp.team \in DOMAIN mgr.active_teams
    /\ mgr.active_teams[lastOp.team].state.status = "Paused"
    /\ mgr.states[<<lastOp.project, lastOp.team>>].status = "Paused"

\* C22: a team's State.session_info is present only while the team's status is
\* Paused: never on an Active or Archived team.
C22_SnapshotOnlyWhilePaused ==
    \A k \in DOMAIN mgr.states :
        IsSome(mgr.states[k].session_info) => mgr.states[k].status = "Paused"

\* archive_team has archived a paused team, whose State still holds the snapshot
C22_Witness ==
    /\ lastOp.op = "archive_team"
    /\ lastOp.res = "Ok"
    /\ <<lastOp.project, lastOp.team>> \in DOMAIN mgr.states
    /\ mgr.states[<<lastOp.project, lastOp.team>>].status = "Archived"
    /\ IsSome(mgr.states[<<lastOp.project, lastOp.team>>].session_info)

\* The entries of the project's teams.json that bear the team's id
IndexEntries(tm, p, t) ==
    {load_index(tm, p)[i] : i \in {j \in 1..Len(load_index(tm, p)) : load_index(tm, p)[j].id = t}}

\* C23: after every completed manager operation the project's index entry for a
\* team agrees with the team's documents: its status equals State.status and
\* its member_count equals 1 + the number of workers in Config.
C23_IndexAgrees ==
    \A k \in DOMAIN mgr.configs :
        /\ IndexEntries(mgr, k[1], k[2]) # {}
        /\ \A e \in IndexEntries(mgr, k[1], k[2]) :
              /\ e.status = load_state(mgr, k[1], k[2]).status
              /\ e.member_count = 1 + Len(mgr.configs[k].workers)

\* update_team has rewritten the index entry of a paused team
C23_Witness ==
    /\ lastOp.op = "update_team"
    /\ lastOp.res = "Ok"
    /\ load_state(mgr, lastOp.project, lastOp.team).status = "Paused"
    /\ \E e \in IndexEntries(mgr, lastOp.project, lastOp.team) : e.status = "Active"

\* The step is a manager operation addressed to a team id that has no stored Config
AddressesNoTeam ==
    /\ lastOp'.op \notin {"init", "create_team", "trigger_recovery", "watchdog", "clock",
                          "send_watchdog_command"}
    /\ lastOp'.team # ""
    /\ Acted \notin DOMAIN mgr.configs

\* C24: a team lookup miss is surfaced as a typed error and nothing is created:
\* every manager operation addressed to a team id that has no stored Config
\* returns TeamNotFound and writes no Config, State, History or index document.
C24_MissIsTeamNotFound ==
    [][AddressesNoTeam =>
        /\ lastOp'.res = "TeamNotFound"
        /\ mgr'.configs = mgr.configs
        /\ mgr'.states = mgr.states
        /\ mgr'.histories = mgr.histories
        /\ mgr'.indexes = mgr.indexes]_vars

\* archive_team has returned Ok for an id without a Config and left a State under it
C24_Witness ==
    /\ lastOp.op = "archive_team"
    /\ lastOp.res = "Ok"
    /\ <<lastOp.project, lastOp.team>> \notin DOMAIN mgr.configs
    /\ <<lastOp.project, lastOp.team>> \in DOMAIN mgr.states

----------------------------------------------------------------------------
(* Teams taken out of the polled set while their members fail *)

NextStopping ==
    \/ \E input \in SoloTeamInputs : team_create(input)
    \/ \E p \in Projects, t \in KnownTeams, m \in KnownMembers, status \in Statuses :
          team_update_member_status(p, t, m, status)
    \/ \E t \in KnownTeams \ DOMAIN wd.monitored_teams, p \in Projects :
          send_watchdog_command(StartMonitoring(t, p))
    \/ \E t \in KnownTeams : send_watchdog_command(StopMonitoring(t))
    \/ recv_StartMonitoring
    \/ recv_StopMonitoring
    \/ tick
    \/ \E t \in wd.to_check : check_health(t)
    \/ schedule_and_collect
    \/ \E rec \in wd.recoveries_to_execute : execute_recovery(rec)
    \/ \E d \in Lapses : TimeAdvance(d)

SpecStopping == Init /\ [][NextStopping]_vars

\* The teams the step health-checks
HealthChecked == IF wd.pc = "check_health" THEN wd.to_check \ wd'.to_check ELSE {}

\* The teams the step joins to the polled set
Joined == DOMAIN wd'.monitored_teams \ DOMAIN wd.monitored_teams

\* C25: once a StopMonitoring(team) command is processed the team is out of the
\* polled set, with the recoveries scheduled for it, and stays out until a
\* StartMonitoring command is processed; no tick health-checks a team or
\* executes a scheduled recovery for a team that is not in the polled set; and
\* while a tick is at work (checking or executing) no team leaves the set, so
\* the recoveries the tick has collected complete before the command counts.
C25_StoppedTeamLeftAlone ==
    [][/\ lastOp'.reason = "StopMonitoring"
          => lastOp'.team \notin DOMAIN wd'.monitored_teams
       /\ Joined # {} => (rx # <<>> /\ Head(rx).cmd = "StartMonitoring"
                           /\ Joined = {Head(rx).team_id})
       /\ HealthChecked \subseteq DOMAIN wd.monitored_teams
       /\ (lastOp'.op = "trigger_recovery" /\ lastOp'.reason = "Scheduled recovery")
          => lastOp'.team \in DOMAIN wd.monitored_teams
       /\ wd.pc # "select" => DOMAIN wd'.monitored_teams = DOMAIN wd.monitored_teams]_vars

\* A StopMonitoring was processed for a team that had a recovery scheduled
C25_Witness ==
    /\ lastOp.reason = "StopMonitoring"
    /\ IsSome(lastOp.ret)
    /\ DOMAIN lastOp.ret[1].pending_recoveries # {}
    /\ lastOp.team \notin DOMAIN wd.monitored_teams

----------------------------------------------------------------------------
(* The watchdog's configuration replaced while it runs *)

ConfigInputs ==
    {[WatchdogConfig_default EXCEPT !.check_interval_secs = 2 * DefaultCheckIntervalSecs,
                                    !.recovery_delay_ms = 0],
     [WatchdogConfig_default EXCEPT !.enabled = FALSE]}

NextConfig ==
    \/ \E input \in SoloTeamInputs : team_create(input)
    \/ \E p \in Projects, t \in KnownTeams, m \in KnownMembers, status \in Statuses :
          team_update_member_status(p, t, m, status)
    \/ \E t \in KnownTeams \ DOMAIN wd.monitored_teams, p \in Projects :
          send_watchdog_command(StartMonitoring(t, p))
    \/ \E c \in ConfigInputs : send_watchdog_command(UpdateConfig(c))
    \/ recv_StartMonitoring
    \/ recv_UpdateConfig
    \/ tick
    \/ \E t \in wd.to_check : check_health(t)
    \/ schedule_and_collect
    \/ \E rec \in wd.recoveries_to_execute : execute_recovery(rec)
    \/ \E d \in Lapses : TimeAdvance(d)

SpecConfig == Init /\ [][NextConfig]_vars

\* The step is interval.tick() completing
TickFires == wd.pc = "select" /\ wd.until_tick = 0 /\ rx' = rx /\ lastOp'.op = "watchdog"

\* The step is the schedule pass of a tick
SchedulePass == wd.pc = "check_health" /\ wd.to_check = {} /\ lastOp'.op = "watchdog"

\* The step takes an UpdateConfig command off the queue
ConfigSwapped ==
    /\ wd.pc = "select"
    /\ rx # <<>>
    /\ Head(rx).cmd = "UpdateConfig"
    /\ rx' = Tail(rx)

\* C26: UpdateConfig hot-swaps all polling parameters without restarting the
\* watchdog: the command installs its config and leaves the loop running; from
\* then on every tick is followed by the next one check_interval_secs of the
\* config in force later, does its health checks and recoveries only if that
\* config has enabled set, and schedules recoveries recovery_delay_ms ahead.
C26_ConfigHotSwapped ==
    [][/\ ConfigSwapped => (wd'.config = Head(rx).config /\ wd'.running)
       /\ TickFires =>
             /\ wd'.until_tick = wd.config.check_interval_secs
             /\ (wd'.pc = "check_health") = wd.config.enabled
       /\ SchedulePass =>
             \A h \in to_schedule(wd) :
                 h.team_id \in DOMAIN wd.monitored_teams =>
                     IF is_due(wd.config.recovery_delay_ms)
                     THEN <<h.team_id, wd.monitored_teams[h.team_id].project_path,
                            h.member_id>> \in wd'.recoveries_to_execute
                     ELSE /\ h.member_id \in
                               DOMAIN wd'.monitored_teams[h.team_id].pending_recoveries
                          /\ wd'.monitored_teams[h.team_id].pending_recoveries[h.member_id]
                                 = wd.config.recovery_delay_ms]_vars

\* A tick has fired after an UpdateConfig that asked for another check interval
C26_Witness ==
    /\ wd.config.check_interval_secs # DefaultCheckIntervalSecs
    /\ wd.pc = "check_health"
    /\ wd.until_tick = DefaultCheckIntervalSecs
    /\ wd.running

----------------------------------------------------------------------------
(* Ticks over teams that cannot be read and recoveries that cannot be stored *)

\* One of the collected recoveries executed while the store fails
execute_recovery_failing(rec, fault) ==
    /\ wd.pc = "execute"
    /\ rec \in wd.recoveries_to_execute
    /\ Recovery_done(trigger_recovery_failing(mgr, rec[1], rec[2], rec[3],
                                              "Scheduled recovery", fault),
                     rec[1], rec[2], rec[3], "Scheduled recovery")
    /\ wd' = [wd EXCEPT !.recoveries_to_execute = @ \ {rec},
                        !.pc = IF wd.recoveries_to_execute = {rec} THEN "select"
                               ELSE "execute"]
    /\ preempted' = preempted \ {<<rec[1], rec[3]>>}
    /\ UNCHANGED rx

\* Teams with and without documents are monitored; the store may fail under a recovery
NextFaulty ==
    \/ \E input \in TeamInputs : team_create(input)
    \/ \E p \in Projects, t \in KnownTeams, m \in KnownMembers, status \in Statuses :
          team_update_member_status(p, t, m, status)
    \/ \E t \in TeamIds \ DOMAIN wd.monitored_teams, p \in Projects :
          send_watchdog_command(StartMonitoring(t, p))
    \/ recv_StartMonitoring
    \/ tick
    \/ \E t \in wd.to_check : check_health(t)
    \/ schedule_and_collect
    \/ \E rec \in wd.recoveries_to_execute :
          \/ execute_recovery(rec)
          \/ \E fault \in StorageFaults : execute_recovery_failing(rec, fault)
    \/ \E d \in Lapses : TimeAdvance(d)

SpecFaulty == Init /\ [][NextFaulty]_vars

\* The monitored teams whose documents the manager cannot read
Unreadable ==
    {t \in DOMAIN wd.monitored_teams :
        get_members_with_state(mgr, wd.monitored_teams[t].project_path, t).res # "Ok"}

\* Every member that the Config of a readable monitored team lists has its report
\* among those of the tick
AllReadableChecked ==
    \A t \in DOMAIN wd.monitored_teams \ Unreadable :
        \A m \in MemberIdsOf(mgr.configs[<<wd.monitored_teams[t].project_path, t>>]) :
            \E h \in wd.health_reports : h.team_id = t /\ h.member_id = m

\* C27: a storage error for one monitored team never halts monitoring.  When a
\* tick has been through its health checks, every monitored team that can be
\* read has been checked, whatever teams could not be; a recovery of the tick,
\* whether it is stored or fails, leaves every other collected recovery to be
\* executed in the same tick; and the loop goes on running.
C27_ErrorsDoNotHaltMonitoring ==
    [][/\ SchedulePass => AllReadableChecked
       /\ (wd.pc = "execute" /\ lastOp'.op = "trigger_recovery") =>
             /\ wd'.recoveries_to_execute =
                    wd.recoveries_to_execute
                        \ {<<lastOp'.team, lastOp'.project, lastOp'.member>>}
             /\ wd'.pc = IF wd'.recoveries_to_execute = {} THEN "select" ELSE "execute"
             /\ wd'.monitored_teams = wd.monitored_teams
       /\ wd'.running]_vars

\* While a team without documents is monitored, a scheduled recovery has failed on
\* the store and another recovery of the same tick is still to be executed
C27_Witness ==
    /\ Unreadable # {}
    /\ lastOp.op = "trigger_recovery"
    /\ lastOp.reason = "Scheduled recovery"
    /\ lastOp.res = "ReplaceFailed"
    /\ wd.pc = "execute"
    /\ wd.recoveries_to_execute # {}

----------------------------------------------------------------------------
(* What the recovery operations change and what they leave alone *)

\* The step is a successful call of the named manager operation on a member of the Config
Succeeds(name) ==
    /\ lastOp'.op = name
    /\ lastOp'.res = "Ok"
    /\ Acted \in DOMAIN mgr.configs
    /\ IsSome(find_member(mgr.configs[Acted], lastOp'.member))

\* Every member but the named ones has the Config and State entry it had
OthersUntouched(gone) ==
    /\ \A x \in MembersOf(mgr.configs[Acted]) :
          x.id \notin gone => x \in MembersOf(mgr'.configs[Acted])
    /\ \A id \in DOMAIN mgr.states[Acted].members \ gone :
          /\ id \in DOMAIN mgr'.states[Acted].members
          /\ mgr'.states[Acted].members[id] = mgr.states[Acted].members[id]

\* C28: report_member_failure(m) on an existing member increments exactly m's
\* Config failure_count by one, sets m's State.status to Failed and creates no
\* replacement: the member ids of Config and State, every other member's
\* Config and State entry, and History are unchanged.
C28_FailureReportedInPlace ==
    [][Succeeds("report_member_failure") =>
        /\ find_member(mgr'.configs[Acted], lastOp'.member)[1].failure_count
               = find_member(mgr.configs[Acted], lastOp'.member)[1].failure_count + 1
        /\ mgr'.states[Acted].members[lastOp'.member].status = "Failed"
        /\ MemberIdsOf(mgr'.configs[Acted]) = MemberIdsOf(mgr.configs[Acted])
        /\ DOMAIN mgr'.states[Acted].members = DOMAIN mgr.states[Acted].members
        /\ OthersUntouched({lastOp'.member})
        /\ mgr'.histories = mgr.histories]_vars

\* A worker of a team of several members has been reported failed
C28_Witness ==
    /\ lastOp.op = "report_member_failure"
    /\ lastOp.res = "Ok"
    /\ <<lastOp.project, lastOp.team>> \in DOMAIN mgr.configs
    /\ lastOp.member \in {w.id : w \in Range(mgr.configs[<<lastOp.project, lastOp.team>>].workers)}
    /\ mgr.states[<<lastOp.project, lastOp.team>>].members[lastOp.member].status = "Failed"

\* team_create_replacement in runs that draw up to MaxDrawn member ids
replace_member(p, t, m) ==
    /\ create_replacement_member(mgr, p, t, m).tm.uuid_member <= MaxDrawn + 1
    /\ mgr' = create_replacement_member(mgr, p, t, m).tm
    /\ lastOp' = Done("create_replacement_member", p, t, m,
                      create_replacement_member(mgr, p, t, m))
    /\ UNCHANGED <<wd, rx, emitted, elapsed, replaced, preempted, lock, callers, acquired>>

\* Teams grown to three members, whose members fail and are replaced
NextSlots ==
    \/ \E input \in TeamInputs : team_create(input)
    \/ \E p \in Projects, t \in KnownTeams, x \in MemberInputs :
          team_add_member(p, t, x.role, x.agent_type)
    \/ \E p \in Projects, t \in KnownTeams, m \in MemberIds :
          \/ team_report_member_failure(p, t, m)
          \/ team_update_member_session(p, t, m, Some("term"), Some("claude"))
          \/ replace_member(p, t, m)

SpecSlots == Init /\ [][NextSlots]_vars

\* The replacement create_replacement_member has returned
Replacement == lastOp'.ret[1]

\* C29: create_replacement_member(m) puts the replacement in the slot m had (the
\* orchestrator slot if m was the orchestrator, otherwise the same index of
\* Config.workers) with m's role and agent type, gives it a State entry with
\* status Recovering and no terminal_id or claude_session_id, and leaves the
\* number and order of the workers and every other member's Config and State
\* entry unchanged.
C29_ReplacementInSameSlot ==
    [][Succeeds("create_replacement_member") =>
        /\ Replacement.role = find_member(mgr.configs[Acted], lastOp'.member)[1].role
        /\ Replacement.agent_type
               = find_member(mgr.configs[Acted], lastOp'.member)[1].agent_type
        /\ Replacement.id # lastOp'.member
        /\ IF mgr.configs[Acted].orchestrator.id = lastOp'.member
           THEN /\ mgr'.configs[Acted].orchestrator = Replacement
                /\ mgr'.configs[Acted].workers = mgr.configs[Acted].workers
           ELSE /\ mgr'.configs[Acted].orchestrator = mgr.configs[Acted].orchestrator
                /\ Len(mgr'.configs[Acted].workers) = Len(mgr.configs[Acted].workers)
                /\ \A i \in 1..Len(mgr.configs[Acted].workers) :
                      mgr'.configs[Acted].workers[i] =
                          IF mgr.configs[Acted].workers[i].id = lastOp'.member
                          THEN Replacement ELSE mgr.configs[Acted].workers[i]
        /\ Replacement.id \in DOMAIN mgr'.states[Acted].members
        /\ mgr'.states[Acted].members[Replacement.id].status = "Recovering"
        /\ mgr'.states[Acted].members[Replacement.id].terminal_id = None
        /\ mgr'.states[Acted].members[Replacement.id].claude_session_id = None
        /\ lastOp'.member \notin DOMAIN mgr'.states[Acted].members
        /\ OthersUntouched({lastOp'.member})]_vars

\* The first of two workers, which held a terminal, has been replaced in its slot
C29_Witness ==
    /\ lastOp.op = "create_replacement_member"
    /\ lastOp.res = "Ok"
    /\ <<lastOp.project, lastOp.team>> \in DOMAIN mgr.configs
    /\ Len(mgr.configs[<<lastOp.project, lastOp.team>>].workers) = 2
    /\ mgr.configs[<<lastOp.project, lastOp.team>>].workers[1].recovered_from
           = Some(lastOp.member)
    /\ \E id \in DOMAIN mgr.states[<<lastOp.project, lastOp.team>>].members :
           IsSome(mgr.states[<<lastOp.project, lastOp.team>>].members[id].terminal_id)

----------------------------------------------------------------------------
(* Recoveries whose history cannot be written: save_history returns Err in    *)
(* add_recovery_event, record_recovery_event returns it and writes nothing,   *)
(* and trigger_recovery drops the result ("let _ =").                         *)

recovery_recorded_unlogged(created, team_id, member_id, reason) ==
    IF created.res # "Ok" THEN Outcome(created.tm, "ReplaceFailed", None)
    ELSE Outcome(created.tm, "Recovered",
                 Some(RecoveryNotification(team_id, member_id, created.ret[1], reason)))

recovery_reported_unlogged(reported, team_id, project_path, member_id, reason) ==
    IF reported.res # "Ok" THEN Outcome(reported.tm, "ReportFailed", None)
    ELSE recovery_recorded_unlogged(
             create_replacement_member(reported.tm, project_path, team_id, member_id),
             team_id, member_id, reason)

recovery_checked_unlogged(got, team_id, project_path, member_id, reason) ==
    IF got.res # "Ok" THEN Outcome(got.tm, "TeamNotFound", None)
    ELSE IF ~got.ret[1].config.auto_recovery THEN Outcome(got.tm, "Disabled", None)
    ELSE IF /\ IsSome(recovery_member(got.ret[1].config, member_id))
            /\ cap_reached(recovery_member(got.ret[1].config, member_id)[1],
                           got.ret[1].config)
         THEN Outcome(got.tm, "MaxAttempts", None)
    ELSE recovery_reported_unlogged(
             report_member_failure(got.tm, project_path, team_id, member_id),
             team_id, project_path, member_id, reason)

\* The TriggerRecovery command handled while history.json cannot be written
recv_TriggerRecovery_unlogged ==
    /\ Receiving("TriggerRecovery")
    /\ Head(rx).team_id \in DOMAIN wd.monitored_teams
    /\ Recovery_done(recovery_checked_unlogged(
                         get_team(mgr, wd.monitored_teams[Head(rx).team_id].project_path,
                                  Head(rx).team_id),
                         Head(rx).team_id, wd.monitored_teams[Head(rx).team_id].project_path,
                         Head(rx).member_id, Head(rx).reason),
                     Head(rx).team_id, wd.monitored_teams[Head(rx).team_id].project_path,
                     Head(rx).member_id, Head(rx).reason)
    /\ preempted' = IF lastOp'.res \in {"Recovered", "ReplaceFailed"}
                    THEN preempted \ {<<Head(rx).team_id, Head(rx).member_id>>}
                    ELSE preempted
    /\ UNCHANGED wd

NextUnlogged ==
    \/ NextRecovery
    \/ recv_TriggerRecovery_unlogged

SpecUnlogged == Init /\ [][NextUnlogged]_vars

\* The id of the replacement the step's notification carries
Announced == emitted'[Len(emitted')].replacement_member_id[1]

\* C30: on a successful watchdog recovery exactly one recovery notification is
\* emitted, carrying the failed member id, the replacement member id and
\* success = true, and it is emitted only once the replacement is persisted in
\* Config and State and the history event is recorded; a trigger_recovery that
\* created no replacement emits nothing.
C30_NotifiedAfterRecorded ==
    [][lastOp'.op = "trigger_recovery" =>
        IF lastOp'.res = "Recovered"
        THEN /\ Notified(lastOp'.member, TRUE)
             /\ IsSome(emitted'[Len(emitted')].replacement_member_id)
             /\ Announced \in MemberIdsOf(mgr'.configs[Acted])
             /\ find_member(mgr'.configs[Acted], Announced)[1].recovered_from
                    = Some(lastOp'.member)
             /\ Announced \in DOMAIN mgr'.states[Acted].members
             /\ Acted \in DOMAIN mgr'.histories
             /\ mgr'.histories[Acted].events # <<>>
             /\ mgr'.histories[Acted].events[1].id = mgr.uuid_event
             /\ mgr'.histories[Acted].events[1].failed_member_id = lastOp'.member
             /\ mgr'.histories[Acted].events[1].replacement_member_id = Announced
             /\ mgr'.histories[Acted].events[1].success
        ELSE emitted' = emitted]_vars

\* A recovery was announced as a success and the team's History holds no event for it
C30_Witness ==
    /\ lastOp.op = "trigger_recovery"
    /\ lastOp.res = "Recovered"
    /\ emitted # <<>>
    /\ emitted[Len(emitted)].failed_member_id = lastOp.member
    /\ emitted[Len(emitted)].success
    /\ \A i \in 1..Len(mgr.histories[<<lastOp.project, lastOp.team>>].events) :
           mgr.histories[<<lastOp.project, lastOp.team>>].events[i].failed_member_id
               # lastOp.member

----------------------------------------------------------------------------
(* The orchestrator slot *)

\* The operations whose step may seat a new orchestrator
Replacing == {"create_replacement_member", "trigger_recovery"}

\* C31: the orchestrator is never removed: every Config on file stays on file
\* with an orchestrator, and the orchestrator's id changes only through
\* create_replacement_member applied to the current orchestrator, which seats
\* the replacement in the orchestrator slot; no other operation changes it.
C31_OrchestratorOnlyReplaced ==
    [][\A k \in DOMAIN mgr.configs :
          /\ k \in DOMAIN mgr'.configs
          /\ mgr'.configs[k].orchestrator.id # mgr.configs[k].orchestrator.id =>
                /\ lastOp'.op \in Replacing
                /\ Acted = k
                /\ lastOp'.member = mgr.configs[k].orchestrator.id
                /\ mgr'.configs[k].orchestrator.recovered_from
                       = Some(mgr.configs[k].orchestrator.id)
                /\ mgr'.configs[k].orchestrator.role = mgr.configs[k].orchestrator.role]_vars

\* The orchestrator of a team with a worker has been replaced
C31_Witness ==
    /\ lastOp.op = "create_replacement_member"
    /\ lastOp.res = "Ok"
    /\ <<lastOp.project, lastOp.team>> \in DOMAIN mgr.configs
    /\ mgr.configs[<<lastOp.project, lastOp.team>>].orchestrator.recovered_from
           = Some(lastOp.member)
    /\ mgr.configs[<<lastOp.project, lastOp.team>>].workers # <<>>

----------------------------------------------------------------------------
(* The session snapshot from pause_team to resume_team *)

\* The snapshot of a stored State
Snapshot(tm, k) == tm.states[k].session_info

\* C32: session snapshot round trip.  pause_team stores the terminal-session list
\* it is given; no operation but pause_team and resume_team on the team touches
\* the stored snapshot; resume_team on a Paused team returns the stored
\* snapshot and clears it; and a resume_team that follows a successful
\* resume_team of the same team fails and returns nothing.
C32_SnapshotRoundTrip ==
    [][/\ (lastOp'.op = "pause_team" /\ lastOp'.res = "Ok") =>
             \A ts \in TerminalSessions(lastOp'.team) :
                 mgr' = pause_team(mgr, lastOp'.project, lastOp'.team, ts).tm =>
                     /\ IsSome(Snapshot(mgr', Acted))
                     /\ Snapshot(mgr', Acted)[1].terminals = ts
                     /\ mgr'.states[Acted].status = "Paused"
       /\ \A k \in DOMAIN mgr.states :
             (lastOp'.op \notin {"pause_team", "resume_team"} \/ Acted # k) =>
                 /\ k \in DOMAIN mgr'.states
                 /\ Snapshot(mgr', k) = Snapshot(mgr, k)
       /\ (lastOp'.op = "resume_team" /\ lastOp'.res = "Ok") =>
             /\ mgr.states[Acted].status = "Paused"
             /\ lastOp'.ret[1][2] = Snapshot(mgr, Acted)
             /\ Snapshot(mgr', Acted) = None
       /\ (/\ lastOp'.op = "resume_team"
           /\ lastOp.op = "resume_team"
           /\ lastOp.res = "Ok"
           /\ Acted = <<lastOp.project, lastOp.team>>) =>
             /\ lastOp'.res = "InvalidOperation"
             /\ lastOp'.ret = None]_vars

\* resume_team has handed back a snapshot that lists a terminal
C32_Witness ==
    /\ lastOp.op = "resume_team"
    /\ lastOp.res = "Ok"
    /\ IsSome(lastOp.ret[1][2])
    /\ lastOp.ret[1][2][1].terminals # <<>>
    /\ mgr.states[<<lastOp.project, lastOp.team>>].session_info = None

----------------------------------------------------------------------------
(* The failure record of a new member *)

\* The member configs of team k on file after the step that were not there before it
Joining(k) ==
    {x \in MembersOf(mgr'.configs[k]) :
        k \in DOMAIN mgr.configs => x.id \notin MemberIdsOf(mgr.configs[k])}

\* C33: every member config that appears in a stored Config (with a new team,
\* by add_member or as a recovery replacement) starts with failure_count 0 and
\* no last_failure, so that the cap is not reached for it; a replacement has
\* this even when the member it replaces has failures on record.
C33_NewMemberStartsClean ==
    [][\A k \in DOMAIN mgr'.configs : \A x \in Joining(k) :
          /\ x.failure_count = 0
          /\ x.last_failure = None
          /\ mgr'.configs[k].max_recovery_attempts > 0 => ~cap_reached(x, mgr'.configs[k])]_vars

\* A member with a failure on record has just been replaced
C33_Witness ==
    /\ lastOp.op = "create_replacement_member"
    /\ lastOp.res = "Ok"
    /\ lastOp.after_failure
    /\ IsSome(lastOp.ret)
    /\ lastOp.ret[1].recovered_from = Some(lastOp.member)
    /\ lastOp.ret[1].failure_count = 0
    /\ find_member(mgr.configs[<<lastOp.project, lastOp.team>>], lastOp.ret[1].id) = lastOp.ret

----------------------------------------------------------------------------
(* recovery_watchdog.rs, trigger_recovery taken apart: the manager lock is   *)
(* awaited, the team is read and checked and the failure reported, then the  *)
(* replacement is created and the event recorded, the guard is dropped and   *)
(* the notification emitted.  The commands take the same lock.              *)

\* The guard in the hands of trigger_recovery, with the arguments of the call
RecoveryCall(team_id, project_path, member_id, reason) ==
    [team_id |-> team_id, project_path |-> project_path, member_id |-> member_id,
     reason |-> reason]

\* "let mut manager = self.team_manager.lock().await" on a TriggerRecovery command
recovery_lock ==
    /\ Receiving("TriggerRecovery")
    /\ Head(rx).team_id \in DOMAIN wd.monitored_teams
    /\ lock_free(lock)
    /\ lock' = Some(RecoveryCall(Head(rx).team_id,
                                 wd.monitored_teams[Head(rx).team_id].project_path,
                                 Head(rx).member_id, Head(rx).reason))
    /\ wd' = [wd EXCEPT !.pc = "trigger_recovery"]
    /\ lastOp' = Step("watchdog")
    /\ UNCHANGED <<mgr, emitted, elapsed, replaced, preempted, callers, acquired>>

\* The end of trigger_recovery: drop(manager) or the return that drops it, then the emit
recovery_finish(r, a) ==
    /\ Bounded(r.tm)
    /\ mgr' = r.tm
    /\ lock' = None
    /\ wd' = [wd EXCEPT !.pc = "select"]
    /\ emitted' = IF IsSome(r.ret) THEN Append(emitted, r.ret[1]) ELSE emitted
    /\ replaced' = IF r.res = "Recovered"
                   THEN replaced \cup {<<a.member_id, r.ret[1].replacement_member_id[1]>>}
                   ELSE replaced
    /\ preempted' = IF r.res \in {"Recovered", "ReplaceFailed"}
                    THEN preempted \ {<<a.team_id, a.member_id>>}
                    ELSE preempted
    /\ lastOp' = [op |-> "trigger_recovery", project |-> a.project_path,
                  team |-> a.team_id, member |-> a.member_id, res |-> r.res,
                  ret |-> r.ret, reason |-> a.reason, pre_task |-> None,
                  preempted |-> <<a.team_id, a.member_id>> \in preempted,
                  after_failure |-> FALSE, after_pause |-> FALSE, pre_sessions |-> {}]
    /\ UNCHANGED <<rx, elapsed, callers, acquired>>

\* get_team, the two checks and report_member_failure, under the guard
recovery_report ==
    /\ wd.pc = "trigger_recovery"
    /\ LET a == lock[1]
           got == get_team(mgr, a.project_path, a.team_id)
           reported == report_member_failure(got.tm, a.project_path, a.team_id, a.member_id)
           goes_on == /\ got.res = "Ok"
                      /\ got.ret[1].config.auto_recovery
                      /\ ~(/\ IsSome(recovery_member(got.ret[1].config, a.member_id))
                           /\ cap_reached(recovery_member(got.ret[1].config, a.member_id)[1],
                                          got.ret[1].config))
                      /\ reported.res = "Ok"
       IN IF goes_on
          THEN /\ Bounded(reported.tm)
               /\ mgr' = reported.tm
               /\ wd' = [wd EXCEPT !.pc = "reported"]
               /\ lastOp' = Step("watchdog")
               /\ UNCHANGED <<rx, emitted, elapsed, replaced, preempted, lock, callers,
                              acquired>>
          ELSE recovery_finish(recovery_checked(got, a.team_id, a.project_path,
                                                a.member_id, a.reason), a)

\* build_recovery_context, create_replacement_member and record_recovery_event,
\* under the same guard
recovery_replace ==
    /\ wd.pc = "reported"
    /\ recovery_finish(recovery_reported(Ok(mgr, None), lock[1].team_id,
                                         lock[1].project_path, lock[1].member_id,
                                         lock[1].reason), lock[1])

\* One command is taken apart next to the recovery; the others take the lock and
\* make their call in one step
NextAtomic ==
    \/ \E input \in SoloTeamInputs : team_create(input)
    \/ \E p \in Projects, t \in KnownTeams, m \in KnownMembers, status \in Statuses :
          call(1, p, t, m, status)
    \/ acquire(1)
    \/ load(1)
    \/ store(1)
    \/ \E p \in Projects, t \in KnownTeams : lock_free(lock) /\ team_get(p, t)
    \/ \E t \in KnownTeams, p \in Projects : send_watchdog_command(StartMonitoring(t, p))
    \/ \E t \in KnownTeams, m \in KnownMembers, reason \in Reasons :
          send_watchdog_command(TriggerRecovery(t, m, reason))
    \/ recv_StartMonitoring
    \/ recv_TriggerRecovery_unmonitored
    \/ recovery_lock
    \/ recovery_report
    \/ recovery_replace

SpecAtomic == Init /\ [][NextAtomic]_vars

\* trigger_recovery is between its lock().await and the drop of the guard
Recovering == wd.pc \in {"trigger_recovery", "reported"}

\* The caller is inside the manager
InManager(c) == callers[c].pc \in {"locked", "loaded"}

\* C34: a watchdog recovery is atomic for every other caller of the manager.
\* From the eligibility check to the recorded event trigger_recovery holds the
\* manager lock: meanwhile no caller is inside the manager, and every step that
\* is not the recovery's own leaves the manager and the guard as they are, reads
\* nothing from the manager and returns nothing.
C34_RecoveryAtomic ==
    [][/\ Recovering' =>
             /\ lock' # None
             /\ \A c \in DOMAIN callers' : ~InManager(c)'
       /\ Recovering =>
             \/ lastOp'.op = "trigger_recovery"
             \/ lastOp'.op = "watchdog" /\ Recovering' /\ lock' = lock
             \/ /\ mgr' = mgr
                /\ lock' = lock
                /\ Recovering'
                /\ lastOp'.ret = None
                /\ \A c \in DOMAIN callers : callers'[c].loaded = callers[c].loaded]_vars

\* The failure is reported and the member not yet replaced, and a command that
\* arrived meanwhile waits for the lock
C34_Witness ==
    /\ wd.pc = "reported"
    /\ \E c \in DOMAIN callers :
          /\ callers[c].pc = "waiting"
          /\ callers[c].waited
          /\ callers[c].team = lock[1].team_id
          /\ callers[c].member = lock[1].member_id
          /\ mgr.states[<<callers[c].project, callers[c].team>>].members[callers[c].member].status = "Failed"

----------------------------------------------------------------------------
(* Config and State list the same members *)

\* C35: in every stored team the keys of State.members are the member ids of the
\* Config, the orchestrator and the workers.
C35_StateMembersAreConfigMembers ==
    \A k \in DOMAIN mgr.configs :
        /\ k \in DOMAIN mgr.states
        /\ DOMAIN mgr.states[k].members = MemberIdsOf(mgr.configs[k])

\* A team that has taken a worker in, lost one and had a member replaced
C35_Witness ==
    /\ lastOp.op = "create_replacement_member"
    /\ lastOp.res = "Ok"
    /\ \E k \in DOMAIN mgr.configs :
          /\ k = <<lastOp.project, lastOp.team>>
          /\ Cardinality(MemberIdsOf(mgr.configs[k])) >= 2
          /\ lastOp.ret[1].id \in DOMAIN mgr.states[k].members
          /\ lastOp.member \notin DOMAIN mgr.states[k].members

----------------------------------------------------------------------------
(* The cache against the files *)

\* The place on file of a cached team
CachedKey(t) == <<mgr.active_teams[t].config.project_path, t>>

\* C36: cache coherence.  The Config and the State of every team in
\* active_teams are the persisted ones.
C36_CacheCoherent ==
    \A t \in DOMAIN mgr.active_teams :
        /\ CachedKey(t) \in DOMAIN mgr.configs
        /\ CachedKey(t) \in DOMAIN mgr.states
        /\ mgr.active_teams[t].config = mgr.configs[CachedKey(t)]
        /\ mgr.active_teams[t].state = mgr.states[CachedKey(t)]

\* A cached team has been changed on file: a member's status was set to Failed
C36_Witness ==
    /\ lastOp.op = "update_member_status"
    /\ lastOp.res = "Ok"
    /\ lastOp.team \in DOMAIN mgr.active_teams
    /\ lastOp.member \in DOMAIN mgr.active_teams[lastOp.team].state.members
    /\ mgr.active_teams[lastOp.team].state.members[lastOp.member].status = "Failed"
    /\ mgr.states[<<lastOp.project, lastOp.team>>].members[lastOp.member].status = "Failed"

----------------------------------------------------------------------------
(* Recovery in a team that is paused or archived *)

NextInactive ==
    \/ \E input \in SoloTeamInputs : team_create(input)
    \/ \E p \in Projects, t \in KnownTeams :
          \/ team_pause(p, t, <<>>)
          \/ team_archive(p, t)
          \/ team_resume(p, t)
    \/ \E t \in KnownTeams, p \in Projects : send_watchdog_command(StartMonitoring(t, p))
    \/ \E t \in KnownTeams, m \in KnownMembers, reason \in Reasons :
          send_watchdog_command(TriggerRecovery(t, m, reason))
    \/ recv_StartMonitoring
    \/ recv_TriggerRecovery
    \/ recv_TriggerRecovery_unmonitored

SpecInactive == Init /\ [][NextInactive]_vars

\* The stored team is paused or archived
Inactive(tm, k) == k \in DOMAIN tm.states /\ tm.states[k].status \in {"Paused", "Archived"}

\* C37: the watchdog recovers no member of a team that is not Active: a
\* trigger_recovery on a team whose State.status is Paused or Archived reports no
\* failure and creates no replacement, the Config and the State stay as they are.
C37_InactiveTeamNotRecovered ==
    [][(lastOp'.op = "trigger_recovery" /\ Inactive(mgr, Acted)) =>
          /\ lastOp'.res \notin {"Recovered", "ReplaceFailed"}
          /\ mgr'.configs[Acted] = mgr.configs[Acted]
          /\ mgr'.states[Acted] = mgr.states[Acted]]_vars

\* A member of a paused team has been reported failed and replaced
C37_Witness ==
    /\ lastOp.op = "trigger_recovery"
    /\ lastOp.res = "Recovered"
    /\ mgr.states[<<lastOp.project, lastOp.team>>].status = "Paused"
    /\ lastOp.member \notin MemberIdsOf(mgr.configs[<<lastOp.project, lastOp.team>>])
    /\ lastOp.ret[1].replacement_member_id[1] \in
           MemberIdsOf(mgr.configs[<<lastOp.project, lastOp.team>>])

----------------------------------------------------------------------------
(* After archive_team: the commands called on archived teams, pause_team on  *)
(* no other                                                                 *)

NextArchived ==
    \/ \E input \in TeamInputs : team_create(input)
    \/ \E p \in Projects, t \in KnownTeams :
          \/ team_archive(p, t)
          \/ Inactive(mgr, <<p, t>>) /\ mgr.states[<<p, t>>].status = "Archived"
                /\ \E ts \in TerminalSessions(t) : team_pause(p, t, ts)
          \/ team_resume(p, t)
          \/ team_update(p, t, None, Some(FALSE), None)
          \/ \E m \in KnownMembers, status \in Statuses :
                team_update_member_status(p, t, m, status)

SpecArchived == Init /\ [][NextArchived]_vars

\* C38: Archived is terminal.  No operation takes a team whose State.status is
\* Archived to another status.
C38_ArchivedIsTerminal ==
    [][\A k \in DOMAIN mgr.states :
          mgr.states[k].status = "Archived" =>
              /\ k \in DOMAIN mgr'.states
              /\ mgr'.states[k].status = "Archived"]_vars

\* A team that was archived and then paused has been resumed: it is Active and cached
C38_Witness ==
    /\ lastOp.op = "resume_team"
    /\ lastOp.res = "Ok"
    /\ mgr.states[<<lastOp.project, lastOp.team>>].status = "Active"
    /\ lastOp.team \in DOMAIN mgr.active_teams

----------------------------------------------------------------------------
(* Team names within a project *)

\* C39: team names stay unique within a project: no two stored Configs of a
\* project bear the same name, and no two entries of its index do.
C39_NamesUnique ==
    /\ \A k1, k2 \in DOMAIN mgr.configs :
          (k1 # k2 /\ k1[1] = k2[1]) => mgr.configs[k1].name # mgr.configs[k2].name
    /\ \A p \in DOMAIN mgr.indexes : \A i, j \in 1..Len(mgr.indexes[p]) :
          i # j => mgr.indexes[p][i].name # mgr.indexes[p][j].name

\* update_team has given a team the name another team of the project bears
C39_Witness ==
    /\ lastOp.op = "update_team"
    /\ lastOp.res = "Ok"
    /\ \E k \in DOMAIN mgr.configs :
          /\ k # <<lastOp.project, lastOp.team>>
          /\ k[1] = lastOp.project
          /\ mgr.configs[k].name = lastOp.ret[1].config.name
          /\ mgr.configs[<<lastOp.project, lastOp.team>>].name = mgr.configs[k].name

----------------------------------------------------------------------------
(* Reads under the path of another project *)

\* The project paths the callers pass: that of the teams and one that holds none
ProjectPaths == Projects \cup {"/q"}

NextProjects ==
    \/ \E input \in SoloTeamInputs : team_create(input)
    \/ \E p \in ProjectPaths, t \in KnownTeams :
          \/ team_get(p, t)
          \/ team_pause(p, t, <<>>)
          \/ team_resume(p, t)
    \/ \E t \in KnownTeams, p \in ProjectPaths : send_watchdog_command(StartMonitoring(t, p))
    \/ \E t \in KnownTeams, m \in KnownMembers, reason \in Reasons :
          send_watchdog_command(TriggerRecovery(t, m, reason))
    \/ recv_StartMonitoring
    \/ recv_TriggerRecovery
    \/ recv_TriggerRecovery_unmonitored

SpecProjects == Init /\ [][NextProjects]_vars

\* C40: project isolation of reads.  get_team(P, T) returns a team only if the
\* team is stored under project P, and the Config it returns has project_path P;
\* a trigger_recovery for (P, T) whose team is not stored under P finds no team.
C40_ReadsStayInProject ==
    [][/\ (lastOp'.op = "get_team" /\ lastOp'.res = "Ok") =>
             /\ Acted \in DOMAIN mgr.configs
             /\ lastOp'.ret[1].config.project_path = lastOp'.project
       /\ (lastOp'.op = "trigger_recovery" /\ Acted \notin DOMAIN mgr.configs) =>
             lastOp'.res = "TeamNotFound"]_vars

\* get_team under a path that holds no team has returned the team of another project
C40_Witness ==
    /\ lastOp.op = "get_team"
    /\ lastOp.res = "Ok"
    /\ lastOp.project = "/q"
    /\ <<"/q", lastOp.team>> \notin DOMAIN mgr.configs
    /\ lastOp.ret[1].config.project_path = "/p"
    /\ lastOp.ret[1].config.id = lastOp.team

----------------------------------------------------------------------------
(* Health checks: members of every status, heartbeats that come in or stay   *)
(* away while the clock runs past the heartbeat timeout, and the ticks that  *)
(* judge them.                                                              *)

MemberStatuses == {"Active", "Idle", "Failed", "Recovering", "Paused"}
\* Seconds the clock moves in one step: past the heartbeat timeout
LongLapses == {DefaultHeartbeatTimeoutSecs + 1}

NextHealth ==
    \/ \E input \in TeamInputs : team_create(input)
    \/ \E p \in Projects, t \in KnownTeams, m \in KnownMembers :
          \/ \E status \in MemberStatuses : team_update_member_status(p, t, m, status)
          \/ team_member_heartbeat(p, t, m)
    \/ \E t \in KnownTeams \ DOMAIN wd.monitored_teams, p \in Projects :
          send_watchdog_command(StartMonitoring(t, p))
    \/ recv_StartMonitoring
    \/ tick
    \/ \E t \in wd.to_check : check_health(t)
    \/ schedule_and_collect
    \/ \E rec \in wd.recoveries_to_execute : execute_recovery(rec)
    \/ \E d \in LongLapses : TimeAdvance(d)

SpecHealth == Init /\ [][NextHealth]_vars

\* More than heartbeat_timeout_secs have passed since the member's last_heartbeat
HeartbeatOverdue(ms) ==
    IsSome(ms.last_heartbeat) /\ ms.last_heartbeat[1] > wd.config.heartbeat_timeout_secs

\* Failed, or Active with a heartbeat that is overdue
Unhealthy(ms) ==
    ms.status = "Failed" \/ (ms.status = "Active" /\ HeartbeatOverdue(ms))

\* The health reports hold a detected failure of the member
Flagged(reports, t, m) ==
    \E h \in reports :
        h.team_id = t /\ h.member_id = m /\ h.failure_detected /\ IsSome(h.failure_reason)

\* The members of a monitored team as stored under the watchdog's project path
StoredMembers(t) ==
    LET k == <<wd.monitored_teams[t].project_path, t>>
    IN IF k \in DOMAIN mgr.configs /\ k \in DOMAIN mgr.states
       THEN {m \in DOMAIN mgr.states[k].members : IsSome(find_member(mgr.configs[k], m))}
       ELSE {}

\* The member's recovery is pending, its scheduled time the full delay away
NewlyPending(pending, m) ==
    m \in DOMAIN pending /\ pending[m] = wd.config.recovery_delay_ms

\* The member's recovery was pending before, for the same scheduled time
StillPending(before, after, m) ==
    m \in DOMAIN before /\ after[m] = before[m]

\* C11: on a tick, check_health reports a failure of a monitored member exactly
\* when its State.status is Failed, or it is Active and its last_heartbeat is
\* older than heartbeat_timeout_secs; the members so reported are scheduled for
\* recovery, and Active members with a fresh heartbeat and Idle, Recovering and
\* Paused members are not.
C11_UnhealthyScheduled ==
    [][/\ \A t \in wd.to_check \ wd'.to_check : \A m \in StoredMembers(t) :
             Unhealthy(mgr.states[<<wd.monitored_teams[t].project_path, t>>].members[m])
                <=> Flagged(wd'.health_reports, t, m)
       /\ (wd.pc = "check_health" /\ wd'.pc # "check_health")
             => \A t \in DOMAIN wd.monitored_teams : \A m \in StoredMembers(t) :
                   IF Flagged(wd.health_reports, t, m)
                   THEN NewlyPending(wd'.monitored_teams[t].pending_recoveries, m)
                   ELSE m \in DOMAIN wd'.monitored_teams[t].pending_recoveries
                           => StillPending(wd.monitored_teams[t].pending_recoveries,
                                           wd'.monitored_teams[t].pending_recoveries, m)]_vars

\* A tick has checked a team in which an Active member's heartbeat is overdue,
\* and its reports hold no failure of that member
C11_Witness ==
    /\ wd.pc = "check_health"
    /\ wd.to_check = {}
    /\ \E t \in DOMAIN wd.monitored_teams : \E m \in StoredMembers(t) :
          LET ms == mgr.states[<<wd.monitored_teams[t].project_path, t>>].members[m]
          IN /\ ms.status = "Active"
             /\ HeartbeatOverdue(ms)
             /\ \E h \in wd.health_reports : h.team_id = t /\ h.member_id = m
             /\ ~Flagged(wd.health_reports, t, m)

====
